---------------------------- MODULE Spec2Model ----------------------------
(***************************************************************************)
(* A model of minimidio.h (v0.4.1): the message model, the CoreMIDI byte   *)
(* parser and serializer, the MTC quarter-frame accumulator, and the       *)
(* device life cycle of the CoreMIDI and ALSA backends with the ALSA       *)
(* receive thread.                                                         *)
(*                                                                         *)
(* The module holds several specifications over one set of variables:      *)
(*   SpecParse  the CoreMIDI read proc running over a packet list, and the *)
(*              WinMM input proc running over a packed word                *)
(*   SpecMtc    mm_mtc_push fed the quarter frames of a time code frame    *)
(*   SpecMtcAny mm_mtc_push fed any bytes, or a fixed sequence of bytes    *)
(*   SpecSend   ALSA mm_out_send_sysex on an Opened output device          *)
(*   SpecOrder  ALSA receive threads of the input devices of one context   *)
(*   SpecEnum   ALSA mm__alsa_enum over the ports the sequencer lists      *)
(*   SpecSysex  the SND_SEQ_EVENT_SYSEX case of the ALSA receive thread    *)
(*   SpecRestart  the same with mm_in_stop and mm_in_start between chunks  *)
(*   SpecCm     the life cycle of a CoreMIDI input device                  *)
(*   Spec       the life cycle of an ALSA device, its receive threads and  *)
(*              its wake pipe; FairSpec is Spec under fair scheduling      *)
(*   SpecEvent  mm_out_send and the receive switch of the ALSA backend     *)
(*              over sequencer events                                      *)
(*   SpecArgs   the context and the argument checks of the open and name   *)
(*              functions of the three backends                            *)
(* A specification leaves the variables of the others at their idle value. *)
(***************************************************************************)
EXTENDS Integers, Sequences, FiniteSets

VARIABLES
    (* SpecParse *)
    scn,        \* the scenario: what the peer (or mm_out_send) puts on the wire
    pl,         \* MIDIPacketList: a sequence of packets, each a sequence of bytes
    pi,         \* index i of the packet being read (0-based, as in the code)
    pj,         \* cursor j in the packet being read (0-based)
    ppc,        \* "idle", "reading", "mim_data", "done"; "invalid_arg" once
                \* mm_out_send has returned MM_INVALID_ARG
    cb,         \* what the callback received: a sequence of [pkt, msg]
    wm_out,     \* the last WinMM mm_out_send: [ret, pk], pk the word sent or -1
    wm_p1,      \* the word WinMM hands to mm__wm_in_proc with MIM_DATA, or -1
    (* SpecMtc *)
    mtc_s,      \* mm_mtc_state: [pieces, count]
    mtc_F,      \* the frame whose quarter frames are pushed
    mtc_k,      \* number of mm_mtc_push calls made
    mtc_ret,    \* return values of the calls made, in order
    mtc_out,    \* *out after the last call that wrote it
    mtc_in,     \* the bytes to push when the caller pushes a fixed sequence
    mtc_qf,     \* the byte passed to the last call, -1 before the first
    (* SpecSysex *)
    sx_chunks,  \* the chunks still to arrive, as SND_SEQ_EVENT_SYSEX events
    sx_all,     \* all the chunks of the scenario
    sx_buf,     \* da->sysex_buf[0 .. sysex_pos-1]
    sx_cb,      \* MM_SYSEX messages given to the callback: their byte slices
    sx_run,     \* [running, stops, kept]: da->running, the mm_in_stop calls
                \* made, and how many bytes held were received before the
                \* last of them
    (* SpecCm *)
    cm_dev,     \* mm_device of the CoreMIDI backend
    cm_os,      \* what CoreMIDI holds for it: ports, endpoints, connection
    cm_obs,     \* the last call returned or callback made, and whether Running
    (* Spec *)
    dev,        \* mm_device of the ALSA backend
    os,         \* what the OS holds: ports, pipes, subscription, queued events,
                \* and the connect and disconnect calls it was given
    pipe,       \* number of bytes in the wake pipe
    thr,        \* the receive threads created: a sequence of [pc, ev]
    own,        \* the owning thread: [pc, op]
    obs,        \* the last call returned or callback made, and whether Running
    (* SpecEvent *)
    ev_q,       \* sequencer events queued at the input port, not yet read
    ev_calls,   \* the mm_out_send calls made: [msg, ret, sent]
    ev_cb,      \* what the callback received: a sequence of [ev, msg]
    (* SpecArgs *)
    a_be,       \* the backend the library was compiled for
    a_ctx,      \* mm_context: [initialized]
    a_dev,      \* the caller's mm_device
    a_os,       \* the number of sources and destinations the OS lists now
    a_obs,      \* the last call returned, and the life of the context so far
    (* SpecSend *)
    so_buf,     \* dev->al.sysex_buf of an Opened output device
    so_last,    \* the last mm_out_send_sysex call: [data, os_ok, ret, sent, buf]
    (* SpecOrder *)
    ord_q,      \* the input queue of the context's sequencer client
    ord_hand,   \* per device: the event its receive thread has read, or none
    ord_log,    \* per device: the events its callback was called with
    ord_arr,    \* per device: the events that arrived at its port, in order
    (* SpecEnum *)
    en_os,      \* the ports the sequencer lists, in query order: [client, caps]
    en_lst,     \* the list mm__alsa_enum filled last: [dir, ports]
    en_call     \* the name and open calls made with the last index used:
                \* [dir, idx, name, open], each result <<>> or <<[ret, port]>>

parseVars == <<scn, pl, pi, pj, ppc, cb>>
wmVars    == <<wm_out, wm_p1>>
mtcVars   == <<mtc_s, mtc_F, mtc_k, mtc_ret, mtc_out, mtc_in, mtc_qf>>
sysexVars == <<sx_chunks, sx_all, sx_buf, sx_cb, sx_run>>
cmVars    == <<cm_dev, cm_os, cm_obs>>
alsaVars  == <<dev, os, pipe, thr, own, obs>>
eventVars == <<ev_q, ev_calls, ev_cb>>
argVars   == <<a_be, a_ctx, a_dev, a_os, a_obs>>
sendVars  == <<so_buf, so_last>>
orderVars == <<ord_q, ord_hand, ord_log, ord_arr>>
enumVars  == <<en_os, en_lst, en_call>>
moreVars  == <<sendVars, orderVars, enumVars>>
vars      == <<parseVars, wmVars, mtcVars, sysexVars, cmVars, alsaVars,
               eventVars, argVars, moreVars>>

\* the variables a specification leaves alone
notParse ==
    <<wmVars, mtcVars, sysexVars, cmVars, alsaVars, eventVars, argVars, moreVars>>
notMtc ==
    <<parseVars, wmVars, sysexVars, cmVars, alsaVars, eventVars, argVars, moreVars>>
notSysex ==
    <<parseVars, wmVars, mtcVars, cmVars, alsaVars, eventVars, argVars, moreVars>>
notCm ==
    <<parseVars, wmVars, mtcVars, sysexVars, alsaVars, eventVars, argVars, moreVars>>
notAlsa ==
    <<parseVars, wmVars, mtcVars, sysexVars, cmVars, eventVars, argVars, moreVars>>
notEvent ==
    <<parseVars, wmVars, mtcVars, sysexVars, cmVars, alsaVars, argVars, moreVars>>
notArgs ==
    <<parseVars, wmVars, mtcVars, sysexVars, cmVars, alsaVars, eventVars, moreVars>>
\* the variables the WinMM steps of SpecParse leave alone
notWinmm ==
    <<scn, pl, pi, pj, mtcVars, sysexVars, cmVars, alsaVars, eventVars, argVars, moreVars>>

notSend ==
    <<parseVars, wmVars, mtcVars, sysexVars, cmVars, alsaVars, eventVars, argVars,
      orderVars, enumVars>>
notOrder ==
    <<parseVars, wmVars, mtcVars, sysexVars, cmVars, alsaVars, eventVars, argVars,
      sendVars, enumVars>>
notEnum ==
    <<parseVars, wmVars, mtcVars, sysexVars, cmVars, alsaVars, eventVars, argVars,
      sendVars, orderVars>>

----------------------------------------------------------------------------
(* Result codes and message types                                          *)

MM_SUCCESS      == "MM_SUCCESS"
MM_ERROR        == "MM_ERROR"
MM_INVALID_ARG  == "MM_INVALID_ARG"
MM_NO_BACKEND   == "MM_NO_BACKEND"
MM_OUT_OF_RANGE == "MM_OUT_OF_RANGE"
MM_ALREADY_OPEN == "MM_ALREADY_OPEN"
MM_NOT_OPEN     == "MM_NOT_OPEN"

MM_NOTE_OFF          == 8
MM_NOTE_ON           == 9
MM_POLY_PRESSURE     == 10
MM_CONTROL_CHANGE    == 11
MM_PROGRAM_CHANGE    == 12
MM_CHANNEL_PRESSURE  == 13
MM_PITCH_BEND        == 14
MM_SYSEX             == 16
MM_MTC_QUARTER_FRAME == 17
MM_SONG_POSITION     == 18
MM_SONG_SELECT       == 19
MM_TUNE_REQUEST      == 20
MM_CLOCK             == 24
MM_START             == 26
MM_CONTINUE          == 27
MM_STOP              == 28
MM_ACTIVE_SENSE      == 30
MM_RESET             == 31

----------------------------------------------------------------------------
(* Bytes                                                                   *)

Byte == 0..255

RECURSIVE BitOr(_, _)
\* a | b on naturals
BitOr(a, b) ==
    IF a = 0 THEN b
    ELSE IF b = 0 THEN a
    ELSE (IF a % 2 = 1 \/ b % 2 = 1 THEN 1 ELSE 0) + 2 * BitOr(a \div 2, b \div 2)

\* pkt->data[j], j counted from 0
At(data, j) == data[j + 1]

\* the bytes data[from .. to-1], positions counted from 0
Slice(data, from, to) == SubSeq(data, from + 1, to)

\* the sequence s without its i-th element (i counted from 1)
RemoveAt(s, i) == SubSeq(s, 1, i - 1) \o SubSeq(s, i + 1, Len(s))

\* the sequence s with x put before position p (p counted from 0)
InsertAt(s, p, x) == SubSeq(s, 1, p) \o <<x>> \o SubSeq(s, p + 1, Len(s))

RECURSIVE Concat(_)
Concat(ss) == IF ss = <<>> THEN <<>> ELSE Head(ss) \o Concat(Tail(ss))

----------------------------------------------------------------------------
(* mm_message                                                              *)

\* memset(&msg, 0, sizeof(msg)); the time stamp is left out
ZeroMsg ==
    [type |-> 0, channel |-> 0, data |-> <<0, 0>>, song_position |-> 0,
     sysex |-> <<>>]


----------------------------------------------------------------------------
(* CoreMIDI: the byte parser of mm__cm_read_proc                           *)

\* the switch of the real-time block: the message type of a byte >= 0xF8,
\* 0 for the undefined ones
RealTimeType(s) ==
    CASE s = 248 -> MM_CLOCK
      [] s = 250 -> MM_START
      [] s = 251 -> MM_CONTINUE
      [] s = 252 -> MM_STOP
      [] s = 254 -> MM_ACTIVE_SENSE
      [] s = 255 -> MM_RESET
      [] OTHER   -> 0

\* while (j < pkt->length && pkt->data[j] != 0xF7) j++;
RECURSIVE ScanF7(_, _)
ScanF7(data, j) ==
    IF j < Len(data) /\ At(data, j) # 247 THEN ScanF7(data, j + 1) ELSE j

\* the message types that take a second data byte in the channel block
TwoDataTypes ==
    {MM_NOTE_OFF, MM_NOTE_ON, MM_POLY_PRESSURE, MM_CONTROL_CHANGE, MM_PITCH_BEND}

\* the SysEx block with the slice ending before the 0xF7
CmSysex_nof7(data, j) ==
    LET e == ScanF7(data, j)
    IN  [j   |-> e + 1,
         out |-> <<[ZeroMsg EXCEPT !.type = MM_SYSEX, !.sysex = Slice(data, j, e)]>>]

\* the SysEx block: one message from the 0xF0 at j to the 0xF7, or to the end
CmSysex(data, j) ==
    LET e  == ScanF7(data, j)
        j2 == IF e < Len(data) THEN e + 1 ELSE e
    IN  [j   |-> j2,
         out |-> <<[ZeroMsg EXCEPT !.type = MM_SYSEX, !.sysex = Slice(data, j, j2)]>>]

\* the system common block with 0xF4 taking a data byte as 0xF3 does
CmSysCommon_f4data(data, j) ==
    LET s  == At(data, j)
        j1 == j + 1
        n  == Len(data)
    IN  CASE s = 241 ->
               IF j1 < n
               THEN [j |-> j1 + 1,
                     out |-> <<[ZeroMsg EXCEPT !.type = MM_MTC_QUARTER_FRAME,
                                               !.data = <<At(data, j1), 0>>]>>]
               ELSE [j |-> j1,
                     out |-> <<[ZeroMsg EXCEPT !.type = MM_MTC_QUARTER_FRAME]>>]
          [] s = 242 ->
               IF j1 + 1 < n
               THEN LET lsb == At(data, j1)
                        msb == At(data, j1 + 1)
                    IN  [j |-> j1 + 2,
                         out |-> <<[ZeroMsg EXCEPT
                                      !.type = MM_SONG_POSITION,
                                      !.song_position = BitOr(lsb, (msb * 128) % 65536),
                                      !.data = <<lsb, msb>>]>>]
               ELSE [j |-> j1,
                     out |-> <<[ZeroMsg EXCEPT !.type = MM_SONG_POSITION]>>]
          [] s = 243 ->
               IF j1 < n
               THEN [j |-> j1 + 1,
                     out |-> <<[ZeroMsg EXCEPT !.type = MM_SONG_SELECT,
                                               !.data = <<At(data, j1), 0>>]>>]
               ELSE [j |-> j1,
                     out |-> <<[ZeroMsg EXCEPT !.type = MM_SONG_SELECT]>>]
          [] s = 244 ->
               IF j1 < n THEN [j |-> j1 + 1, out |-> <<>>]
                         ELSE [j |-> j1, out |-> <<>>]
          [] s = 246 ->
               [j |-> j1, out |-> <<[ZeroMsg EXCEPT !.type = MM_TUNE_REQUEST]>>]
          [] OTHER -> [j |-> j1, out |-> <<>>]

\* the system common block, s in 0xF1..0xF6; j is the cursor before j++
CmSysCommon(data, j) ==
    LET s  == At(data, j)
        j1 == j + 1
        n  == Len(data)
    IN  CASE s = 241 ->
               IF j1 < n
               THEN [j |-> j1 + 1,
                     out |-> <<[ZeroMsg EXCEPT !.type = MM_MTC_QUARTER_FRAME,
                                               !.data = <<At(data, j1), 0>>]>>]
               ELSE [j |-> j1,
                     out |-> <<[ZeroMsg EXCEPT !.type = MM_MTC_QUARTER_FRAME]>>]
          [] s = 242 ->
               IF j1 + 1 < n
               THEN LET lsb == At(data, j1)
                        msb == At(data, j1 + 1)
                    IN  [j |-> j1 + 2,
                         out |-> <<[ZeroMsg EXCEPT
                                      !.type = MM_SONG_POSITION,
                                      !.song_position = BitOr(lsb, (msb * 128) % 65536),
                                      !.data = <<lsb, msb>>]>>]
               ELSE [j |-> j1,
                     out |-> <<[ZeroMsg EXCEPT !.type = MM_SONG_POSITION]>>]
          [] s = 243 ->
               IF j1 < n
               THEN [j |-> j1 + 1,
                     out |-> <<[ZeroMsg EXCEPT !.type = MM_SONG_SELECT,
                                               !.data = <<At(data, j1), 0>>]>>]
               ELSE [j |-> j1,
                     out |-> <<[ZeroMsg EXCEPT !.type = MM_SONG_SELECT]>>]
          [] s = 246 ->
               [j |-> j1, out |-> <<[ZeroMsg EXCEPT !.type = MM_TUNE_REQUEST]>>]
          [] OTHER -> [j |-> j1, out |-> <<>>]

\* the channel block with MM_PITCH_BEND missing from the two-byte cases
CmChannel_nobend(data, j) ==
    LET s   == At(data, j)
        n   == Len(data)
        ty  == (s \div 16) % 16
        j1  == j + 1
        d0  == IF j1 < n THEN At(data, j1) ELSE 0
        j2  == IF j1 < n THEN j1 + 1 ELSE j1
        two == ty \in (TwoDataTypes \ {MM_PITCH_BEND}) /\ j2 < n
        d1  == IF two THEN At(data, j2) ELSE 0
        j3  == IF two THEN j2 + 1 ELSE j2
    IN  [j   |-> j3,
         out |-> <<[ZeroMsg EXCEPT !.type = ty, !.channel = s % 16,
                                   !.data = <<d0, d1>>]>>]

\* the channel block taking its data bytes without j < pkt->length
CmChannel_noguard(data, j) ==
    LET s   == At(data, j)
        n   == Len(data)
        ty  == (s \div 16) % 16
        j1  == j + 1
        d0  == IF j1 < n THEN At(data, j1) ELSE 0
        j2  == j1 + 1
        two == ty \in TwoDataTypes
        d1  == IF two /\ j2 < n THEN At(data, j2) ELSE 0
        j3  == IF two THEN j2 + 1 ELSE j2
    IN  [j   |-> j3,
         out |-> <<[ZeroMsg EXCEPT !.type = ty, !.channel = s % 16,
                                   !.data = <<d0, d1>>]>>]

\* the channel block, s in 0x80..0xEF (and 0xF7, which no earlier block takes)
CmChannel(data, j) ==
    LET s   == At(data, j)
        n   == Len(data)
        ty  == (s \div 16) % 16
        j1  == j + 1
        d0  == IF j1 < n THEN At(data, j1) ELSE 0
        j2  == IF j1 < n THEN j1 + 1 ELSE j1
        two == ty \in TwoDataTypes /\ j2 < n
        d1  == IF two THEN At(data, j2) ELSE 0
        j3  == IF two THEN j2 + 1 ELSE j2
    IN  [j   |-> j3,
         out |-> <<[ZeroMsg EXCEPT !.type = ty, !.channel = s % 16,
                                   !.data = <<d0, d1>>]>>]

\* one iteration of while (j < pkt->length): the new cursor and the message
\* given to the callback, if any
CmReadIter(data, j) ==
    LET s == At(data, j)
    IN  IF s >= 248
        THEN [j   |-> j + 1,
              out |-> IF RealTimeType(s) = 0 THEN <<>>
                      ELSE <<[ZeroMsg EXCEPT !.type = RealTimeType(s)]>>]
        ELSE IF s = 240 THEN CmSysex(data, j)
        ELSE IF s >= 241 /\ s <= 246 THEN CmSysCommon(data, j)
        ELSE IF s >= 128 THEN CmChannel(data, j)
        ELSE [j |-> j + 1, out |-> <<>>]

----------------------------------------------------------------------------
(* CoreMIDI: the serializer of mm_out_send                                 *)

\* the switch of mm_out_send: raw[0 .. len-1], or MM_INVALID_ARG
CmOutRaw(msg) ==
    LET ty == msg.type
        st == ((ty * 16) % 256) + (msg.channel % 16)
    IN  CASE ty \in {MM_NOTE_OFF, MM_NOTE_ON, MM_POLY_PRESSURE, MM_CONTROL_CHANGE,
                     MM_PITCH_BEND} -> <<st, msg.data[1], msg.data[2]>>
          [] ty \in {MM_PROGRAM_CHANGE, MM_CHANNEL_PRESSURE} -> <<st, msg.data[1]>>
          [] ty = MM_SONG_POSITION ->
               <<242, msg.song_position % 128, (msg.song_position \div 128) % 128>>
          [] ty = MM_MTC_QUARTER_FRAME -> <<241, msg.data[1]>>
          [] ty = MM_SONG_SELECT       -> <<243, msg.data[1]>>
          [] ty = MM_TUNE_REQUEST      -> <<246>>
          [] ty = MM_CLOCK             -> <<248>>
          [] ty = MM_START             -> <<250>>
          [] ty = MM_CONTINUE          -> <<251>>
          [] ty = MM_STOP              -> <<252>>
          [] ty = MM_ACTIVE_SENSE      -> <<254>>
          [] ty = MM_RESET             -> <<255>>
          [] OTHER                     -> MM_INVALID_ARG

----------------------------------------------------------------------------
(* WinMM: the packed word of mm_out_send and of mm__wm_in_proc             *)

\* the switch of mm_out_send: the DWORD given to midiOutShortMsg.  There is
\* no rejecting case: the default case packs any other type as a channel
\* message
WmOutPacked(msg) ==
    LET ty == msg.type
        st == ((ty * 16) % 256) + (msg.channel % 16)
    IN  CASE ty = MM_SONG_POSITION ->
               242 + (msg.song_position % 128) * 256
                   + ((msg.song_position \div 128) % 128) * 65536
          [] ty = MM_MTC_QUARTER_FRAME -> 241 + msg.data[1] * 256
          [] ty = MM_SONG_SELECT       -> 243 + msg.data[1] * 256
          [] ty = MM_TUNE_REQUEST      -> 246
          [] ty = MM_CLOCK             -> 248
          [] ty = MM_START             -> 250
          [] ty = MM_CONTINUE          -> 251
          [] ty = MM_STOP              -> 252
          [] ty = MM_ACTIVE_SENSE      -> 254
          [] ty = MM_RESET             -> 255
          [] OTHER -> st + msg.data[1] * 256 + msg.data[2] * 65536

\* mm_make_message(status, d1, d2)
mm_make_message(status, d1, d2) ==
    [ZeroMsg EXCEPT !.type = (status \div 16) % 16, !.channel = status % 16,
                    !.data = <<d1, d2>>]

\* the MIM_DATA branch with the song position taken as d1 | (d2 << 8)
WmInProc_shift8(p1) ==
    LET s  == p1 % 256
        d1 == (p1 \div 256) % 256
        d2 == (p1 \div 65536) % 256
    IN  IF s >= 248
        THEN IF RealTimeType(s) = 0 THEN <<>>
             ELSE <<[ZeroMsg EXCEPT !.type = RealTimeType(s)]>>
        ELSE IF s >= 240
        THEN CASE s = 241 -> <<[ZeroMsg EXCEPT !.type = MM_MTC_QUARTER_FRAME,
                                               !.data = <<d1, 0>>]>>
               [] s = 242 -> <<[ZeroMsg EXCEPT
                                  !.type = MM_SONG_POSITION, !.data = <<d1, d2>>,
                                  !.song_position = BitOr(d1, (d2 * 256) % 65536)]>>
               [] s = 243 -> <<[ZeroMsg EXCEPT !.type = MM_SONG_SELECT,
                                               !.data = <<d1, 0>>]>>
               [] s = 246 -> <<[ZeroMsg EXCEPT !.type = MM_TUNE_REQUEST]>>
               [] OTHER   -> <<>>
        ELSE <<mm_make_message(s, d1, d2)>>

\* the MIM_DATA branch of mm__wm_in_proc: the messages given to the callback
\* for the packed word p1
WmInProc(p1) ==
    LET s  == p1 % 256
        d1 == (p1 \div 256) % 256
        d2 == (p1 \div 65536) % 256
    IN  IF s >= 248
        THEN IF RealTimeType(s) = 0 THEN <<>>
             ELSE <<[ZeroMsg EXCEPT !.type = RealTimeType(s)]>>
        ELSE IF s >= 240
        THEN CASE s = 241 -> <<[ZeroMsg EXCEPT !.type = MM_MTC_QUARTER_FRAME,
                                               !.data = <<d1, 0>>]>>
               [] s = 242 -> <<[ZeroMsg EXCEPT
                                  !.type = MM_SONG_POSITION, !.data = <<d1, d2>>,
                                  !.song_position = BitOr(d1, (d2 * 128) % 65536)]>>
               [] s = 243 -> <<[ZeroMsg EXCEPT !.type = MM_SONG_SELECT,
                                               !.data = <<d1, 0>>]>>
               [] s = 246 -> <<[ZeroMsg EXCEPT !.type = MM_TUNE_REQUEST]>>
               [] OTHER   -> <<>>
        ELSE <<mm_make_message(s, d1, d2)>>

----------------------------------------------------------------------------
(* Bounds of the scenarios                                                 *)

\* messages in a byte stream a peer sends as one packet
MaxStreamMsgs == 2
\* bytes of a SysEx a peer sends, 0xF0 and 0xF7 included
MaxSysexLen == 5

\* bytes of a packet of arbitrary bytes
MaxRawLen == 3

\* data bytes tried in outgoing messages
DataSample == {0, 1, 64, 127}
\* data bytes tried inside a SysEx
SysexData == {1, 126}
\* channels tried in outgoing messages
Channels == 0..15

RealTimeBytes == {248, 250, 251, 252, 254, 255}

\* complete messages a stream is made of: NoteOn, ProgramChange, PitchBend,
\* a SysEx, an MTC quarter frame, a SongPosition, TuneRequest, Clock
StreamMsgs ==
    { <<144, 60, 100>>, <<197, 7>>, <<227, 0, 64>>, <<240, 126, 247>>,
      <<241, 35>>, <<242, 16, 1>>, <<246>>, <<248>> }

RECURSIVE StreamsOf(_)
\* the concatenations of 1..n messages of StreamMsgs
StreamsOf(n) ==
    IF n = 0 THEN {}
    ELSE StreamMsgs \cup {s \o m : s \in StreamsOf(n - 1), m \in StreamMsgs}

RECURSIVE SysexOfLen(_)
\* the SysEx byte sequences of n bytes without their 0xF7
SysexOfLen(n) ==
    IF n <= 2 THEN {<<240>>}
    ELSE {s \o <<d>> : s \in SysexOfLen(n - 1), d \in SysexData}

Sysexes == UNION {{s \o <<247>> : s \in SysexOfLen(n)} : n \in 2..MaxSysexLen}

RECURSIVE Chunkings(_)
\* the ways to cut s into non-empty chunks, in order
Chunkings(s) ==
    IF s = <<>> THEN {<<>>}
    ELSE UNION {{<<SubSeq(s, 1, k)>> \o c : c \in Chunkings(SubSeq(s, k + 1, Len(s)))}
                : k \in 1..Len(s)}

ChannelTypes ==
    TwoDataTypes \cup {MM_PROGRAM_CHANGE, MM_CHANNEL_PRESSURE}

\* the non-SysEx messages other than SongPosition, with the fields their kind
\* does not use left at zero
SendableMsgs ==
    {[ZeroMsg EXCEPT !.type = ty, !.channel = ch, !.data = <<d0, d1>>] :
        ty \in TwoDataTypes, ch \in Channels, d0 \in DataSample, d1 \in DataSample}
    \cup
    {[ZeroMsg EXCEPT !.type = ty, !.channel = ch, !.data = <<d0, 0>>] :
        ty \in {MM_PROGRAM_CHANGE, MM_CHANNEL_PRESSURE}, ch \in Channels,
        d0 \in DataSample}
    \cup
    {[ZeroMsg EXCEPT !.type = ty, !.data = <<d0, 0>>] :
        ty \in {MM_MTC_QUARTER_FRAME, MM_SONG_SELECT}, d0 \in DataSample}
    \cup
    {[ZeroMsg EXCEPT !.type = ty] :
        ty \in {MM_TUNE_REQUEST, MM_CLOCK, MM_START, MM_CONTINUE, MM_STOP,
                MM_ACTIVE_SENSE, MM_RESET}}

\* the status bytes MIDI leaves undefined
UndefinedStatus == {244, 245, 249, 253}

\* bytes a packet of arbitrary bytes is made of: a data byte, the status
\* bytes of NoteOn and ProgramChange, the MTC quarter frame status, and the
\* undefined status bytes
RawBytes == {60, 144, 197, 241} \cup UndefinedStatus

RECURSIVE RawOfLen(_)
\* the byte sequences of n bytes of RawBytes
RawOfLen(n) ==
    IF n = 0 THEN {<<>>}
    ELSE {s \o <<b>> : s \in RawOfLen(n - 1), b \in RawBytes}

\* the 14-bit song positions
SongPositions == 0..16383

\* values of msg->type that mm_out_send has no message for: MM_SYSEX, and
\* four values outside enum mm_message_type (0x00, 0x07, 0x0F, 0x28)
UnsendableTypes == {MM_SYSEX, 0, 7, 15, 40}

\* the Identity Request F0 7E 7F 06 01 F7, alone and after a NoteOn
SysexPackets ==
    { <<240, 126, 127, 6, 1, 247>>, <<144, 60, 100, 240, 126, 127, 6, 1, 247>> }

NoScn == [kind |-> "none", S |-> <<>>, R |-> 0, p |-> 0, chunks |-> <<>>, M |-> ZeroMsg]

\* the scenarios with streams of up to nmsgs messages and packets of
\* arbitrary bytes of up to nraw bytes
Scenarios(nmsgs, nraw) ==
    {[NoScn EXCEPT !.kind = "stream", !.S = s, !.R = r, !.p = q] :
        s \in StreamsOf(nmsgs), r \in RealTimeBytes,
        q \in 0..(3 * nmsgs)}
    \cup
    {[NoScn EXCEPT !.kind = "chunks", !.chunks = c] :
        c \in UNION {Chunkings(s) : s \in Sysexes}}
    \cup
    {[NoScn EXCEPT !.kind = "msg", !.M = m] : m \in SendableMsgs}
    \cup
    {[NoScn EXCEPT !.kind = "raw", !.S = s] :
        s \in SysexPackets \cup UNION {RawOfLen(n) : n \in 1..nraw}}
    \cup
    {[NoScn EXCEPT !.kind = "word", !.S = s] : s \in RawOfLen(3)}
    \cup
    {[NoScn EXCEPT !.kind = "songpos",
                   !.M = [ZeroMsg EXCEPT !.type = MM_SONG_POSITION,
                                         !.song_position = pos]] :
        pos \in SongPositions}
    \cup
    {[NoScn EXCEPT !.kind = "badmsg",
                   !.M = [ZeroMsg EXCEPT !.type = ty, !.channel = 1,
                                         !.data = <<60, 100>>]] :
        ty \in UnsendableTypes}

----------------------------------------------------------------------------
(* SpecParse: mm__cm_read_proc over a packet list                          *)

WmIdle ==
    /\ wm_out = [ret |-> "none", pk |-> -1]
    /\ wm_p1 = -1

ParseIdle ==
    /\ scn = NoScn /\ pl = <<>> /\ pi = 0 /\ pj = 0 /\ ppc = "idle" /\ cb = <<>>

ParseStart ==
    /\ scn \in {s \in Scenarios(MaxStreamMsgs, MaxRawLen) : s.kind = "stream" => s.p <= Len(s.S)}
    /\ pl = <<>> /\ pi = 0 /\ pj = 0 /\ ppc = "idle" /\ cb = <<>>

\* bytes of the packets the read proc is run over alone: a data byte, the
\* status bytes of NoteOn and ProgramChange, 0xF0, 0xF1, 0xF2, the undefined
\* 0xF4, 0xF7 and Clock
PacketBytes == {60, 144, 197, 240, 241, 242, 244, 247, 248}

RECURSIVE PacketsOfLen(_)
\* the byte sequences of n bytes of PacketBytes
PacketsOfLen(n) ==
    IF n = 0 THEN {<<>>}
    ELSE {s \o <<b>> : s \in PacketsOfLen(n - 1), b \in PacketBytes}

\* the packet lists: one packet of 0..MaxRawLen bytes, or the packets of a
\* SysEx cut into chunks
PacketLists ==
    {<<s>> : s \in UNION {PacketsOfLen(n) : n \in 0..MaxRawLen}}
    \cup UNION {Chunkings(x) : x \in Sysexes}

\* CoreMIDI calls the read proc with a packet list of any bytes
PeerSendsPackets ==
    /\ ppc = "idle" /\ scn = NoScn
    /\ \E l \in PacketLists : pl' = l
    /\ ppc' = "reading"
    /\ UNCHANGED <<scn, pi, pj, cb>>
    /\ UNCHANGED notParse

\* a peer sends the stream S as one packet and, as a second packet, S with
\* the real-time byte R put at position p
PeerSendsStream ==
    /\ ppc = "idle" /\ scn.kind = "stream"
    /\ pl' = <<scn.S, InsertAt(scn.S, scn.p, scn.R)>>
    /\ ppc' = "reading"
    /\ UNCHANGED <<scn, pi, pj, cb>>
    /\ UNCHANGED notParse

\* a peer sends the bytes S, in any order of status and data bytes, as one
\* packet
PeerSendsBytes ==
    /\ ppc = "idle" /\ scn.kind = "raw"
    /\ pl' = <<scn.S>>
    /\ ppc' = "reading"
    /\ UNCHANGED <<scn, pi, pj, cb>>
    /\ UNCHANGED notParse

\* a peer sends a SysEx cut into chunks, one packet per chunk
PeerSendsChunks ==
    /\ ppc = "idle" /\ scn.kind = "chunks"
    /\ pl' = scn.chunks
    /\ ppc' = "reading"
    /\ UNCHANGED <<scn, pi, pj, cb>>
    /\ UNCHANGED notParse

\* mm_out_send on an open output device: the message is serialized and the
\* packet sent to the input the read proc serves
mm_out_send_coremidi ==
    /\ ppc = "idle" /\ scn.kind \in {"msg", "songpos", "badmsg"}
    /\ IF CmOutRaw(scn.M) = MM_INVALID_ARG
       THEN /\ pl' = pl
            /\ ppc' = "invalid_arg"
       ELSE /\ pl' = <<CmOutRaw(scn.M)>>
            /\ ppc' = "reading"
    /\ UNCHANGED <<scn, pi, pj, cb>>
    /\ UNCHANGED notParse

\* one iteration of while (j < pkt->length)
mm__cm_read_proc_iter ==
    /\ ppc = "reading" /\ pi < Len(pl) /\ pj < Len(pl[pi + 1])
    /\ LET r == CmReadIter(pl[pi + 1], pj)
       IN  /\ pj' = r.j
           /\ cb' = cb \o [k \in 1..Len(r.out) |-> [pkt |-> pi, msg |-> r.out[k]]]
    /\ UNCHANGED <<scn, pl, pi, ppc>>
    /\ UNCHANGED notParse

\* the end of the inner loop: pkt = MIDIPacketNext(pkt), i++, and the return
\* after the last packet
mm__cm_read_proc_next ==
    /\ ppc = "reading" /\ pi < Len(pl) /\ pj >= Len(pl[pi + 1])
    /\ pi' = pi + 1
    /\ pj' = 0
    /\ ppc' = IF pi + 1 < Len(pl) THEN "reading" ELSE "done"
    /\ UNCHANGED <<scn, pl, cb>>
    /\ UNCHANGED notParse

\* the scenarios whose message goes through the WinMM backend as well
WinmmKinds == {"songpos", "badmsg"}

\* WinMM mm_out_send on an open output device: the message is packed and
\* given to midiOutShortMsg; a word the driver takes goes over the cable to
\* the input mm__wm_in_proc serves
mm_out_send_winmm(ok) ==
    /\ ppc = "idle" /\ scn.kind \in WinmmKinds
    /\ wm_out' = [ret |-> IF ok THEN MM_SUCCESS ELSE MM_ERROR,
                  pk  |-> WmOutPacked(scn.M)]
    /\ wm_p1' = IF ok THEN WmOutPacked(scn.M) ELSE wm_p1
    /\ ppc' = IF ok THEN "mim_data" ELSE "done"
    /\ UNCHANGED cb
    /\ UNCHANGED notWinmm

\* a peer sends a short message of the bytes S: the driver packs them into
\* one word, the status byte lowest
PeerSendsWord ==
    /\ ppc = "idle" /\ scn.kind = "word"
    /\ wm_p1' = scn.S[1] + 256 * scn.S[2] + 65536 * scn.S[3]
    /\ ppc' = "mim_data"
    /\ UNCHANGED <<wm_out, cb>>
    /\ UNCHANGED notWinmm

\* mm__wm_in_proc called with MIM_DATA and the word p1
mm__wm_in_proc ==
    /\ ppc = "mim_data"
    /\ LET out == WmInProc(wm_p1)
       IN  cb' = cb \o [k \in 1..Len(out) |-> [pkt |-> 0, msg |-> out[k]]]
    /\ ppc' = "done"
    /\ UNCHANGED <<wm_out, wm_p1>>
    /\ UNCHANGED notWinmm

ParseNext ==
    \/ PeerSendsStream
    \/ PeerSendsBytes
    \/ PeerSendsWord
    \/ \E ok \in BOOLEAN : mm_out_send_winmm(ok)
    \/ mm__wm_in_proc
    \/ PeerSendsChunks
    \/ mm_out_send_coremidi
    \/ mm__cm_read_proc_iter
    \/ mm__cm_read_proc_next

\* the messages the callback received from packet i
MsgsOf(i) ==
    LET idx == {k \in 1..Len(cb) : cb[k].pkt = i}
        F[k \in 0..Len(cb)] ==
            IF k = 0 THEN <<>>
            ELSE IF k \in idx THEN Append(F[k - 1], cb[k].msg) ELSE F[k - 1]
    IN  F[Len(cb)]

----------------------------------------------------------------------------
(* MTC: mm_mtc_push                                                        *)

\* mm_mtc_rate
MM_MTC_24FPS == 0
MM_MTC_30FPS == 3

\* a zero-initialised mm_mtc_state
MtcZero == [pieces |-> [i \in 0..7 |-> 0], count |-> 0]

MtcFrame(h, m, s, f, r) ==
    [hours |-> h, minutes |-> m, seconds |-> s, frames |-> f, rate |-> r]

\* the fields of *out, computed from the eight slots
MtcDecode(pieces) ==
    MtcFrame(BitOr(pieces[6], (pieces[7] % 2) * 16) % 256,
             BitOr(pieces[4], pieces[5] * 16) % 256,
             BitOr(pieces[2], pieces[3] * 16) % 256,
             BitOr(pieces[0], pieces[1] * 16) % 256,
             (pieces[7] \div 2) % 4)

\* mm_mtc_push with the hours taken from slot 7 unmasked
mm_mtc_push_nomask(s, qf, out) ==
    LET nibble == qf % 16
        piece  == (qf \div 16) % 8
        ps     == [s.pieces EXCEPT ![piece] = nibble]
        cnt    == (s.count + 1) % 256
    IN  IF cnt < 8
        THEN [s |-> [pieces |-> ps, count |-> cnt], ret |-> 0, out |-> out]
        ELSE [s   |-> [pieces |-> ps, count |-> 0],
              ret |-> 1,
              out |-> [MtcDecode(ps) EXCEPT
                          !.hours = BitOr(ps[6], ps[7] * 16) % 256]]

\* mm_mtc_push with the two nibbles of qf taken the wrong way round
mm_mtc_push_swapped(s, qf, out) ==
    LET nibble == (qf \div 16) % 16
        piece  == qf % 8
        ps     == [s.pieces EXCEPT ![piece] = nibble]
        cnt    == (s.count + 1) % 256
    IN  IF cnt < 8
        THEN [s |-> [pieces |-> ps, count |-> cnt], ret |-> 0, out |-> out]
        ELSE [s   |-> [pieces |-> ps, count |-> 0],
              ret |-> 1,
              out |-> MtcDecode(ps)]

\* mm_mtc_push returning 1 when the slot written is slot 7, whatever the
\* number of calls made
mm_mtc_push_onslot7(s, qf, out) ==
    LET nibble == qf % 16
        piece  == (qf \div 16) % 8
        ps     == [s.pieces EXCEPT ![piece] = nibble]
        cnt    == (s.count + 1) % 256
    IN  IF piece # 7
        THEN [s |-> [pieces |-> ps, count |-> cnt % 8], ret |-> 0, out |-> out]
        ELSE [s   |-> [pieces |-> ps, count |-> 0],
              ret |-> 1,
              out |-> MtcDecode(ps)]

\* mm_mtc_push(s, qf, out): the state after the call, the value returned, *out
mm_mtc_push(s, qf, out) ==
    LET nibble == qf % 16
        piece  == (qf \div 16) % 8
        ps     == [s.pieces EXCEPT ![piece] = nibble]
        cnt    == (s.count + 1) % 256
    IN  IF cnt < 8
        THEN [s |-> [pieces |-> ps, count |-> cnt], ret |-> 0, out |-> out]
        ELSE [s   |-> [pieces |-> ps, count |-> 0],
              ret |-> 1,
              out |-> MtcDecode(ps)]

\* frames per second of each mm_mtc_rate; 29.97 drop-frame counts frames 0..29
MtcFps == <<24, 25, 30, 30>>

\* the quarter-frame byte of piece k of frame F, by the piece layout
QuarterFrame(F, k) ==
    k * 16 +
    CASE k = 0 -> F.frames % 16
      [] k = 1 -> F.frames \div 16
      [] k = 2 -> F.seconds % 16
      [] k = 3 -> F.seconds \div 16
      [] k = 4 -> F.minutes % 16
      [] k = 5 -> F.minutes \div 16
      [] k = 6 -> F.hours % 16
      [] k = 7 -> (F.hours \div 16) + 2 * F.rate

\* the frames tried: every value of each field, the other fields at the ends
\* of their ranges
MtcFrames ==
    {MtcFrame(h, m, s, f, r) :
        h \in 0..23, m \in {0, 59}, s \in {0, 59}, f \in {0, 23}, r \in 0..3}
    \cup
    {MtcFrame(h, m, s, f, r) :
        h \in {0, 23}, m \in 0..59, s \in {0, 59}, f \in {0, 23}, r \in {0, 3}}
    \cup
    {MtcFrame(h, m, s, f, r) :
        h \in {0, 23}, m \in {0, 59}, s \in 0..59, f \in {0, 23}, r \in {0, 3}}
    \cup
    UNION {{MtcFrame(h, m, s, f, r) :
              h \in {0, 23}, m \in {0, 59}, s \in {0, 59}, f \in 0..(MtcFps[r + 1] - 1)}
           : r \in 0..3}

MtcIdle ==
    /\ mtc_s = MtcZero /\ mtc_F = MtcFrame(0, 0, 0, 0, 0) /\ mtc_k = 0
    /\ mtc_ret = <<>> /\ mtc_out = MtcFrame(0, 0, 0, 0, 0)
    /\ mtc_in = <<>> /\ mtc_qf = -1

MtcStart ==
    /\ mtc_s = MtcZero /\ mtc_F \in MtcFrames /\ mtc_k = 0
    /\ mtc_ret = <<>> /\ mtc_out = MtcFrame(0, 0, 0, 0, 0)
    /\ mtc_in = <<>> /\ mtc_qf = -1

\* the callback's MM_MTC_QUARTER_FRAME case: the next piece of the frame
\* arrives and is pushed
PushNextPiece ==
    /\ mtc_k < 8
    /\ LET r == mm_mtc_push(mtc_s, QuarterFrame(mtc_F, mtc_k), mtc_out)
       IN  /\ mtc_s' = r.s
           /\ mtc_ret' = Append(mtc_ret, r.ret)
           /\ mtc_out' = r.out
    /\ mtc_k' = mtc_k + 1
    /\ mtc_qf' = QuarterFrame(mtc_F, mtc_k)
    /\ UNCHANGED <<mtc_F, mtc_in>>
    /\ UNCHANGED notMtc

\* number of mm_mtc_push calls made on one state
MaxPushes == 17

\* the bytes pushed in any order: piece indexes 0, 1, 2, 3, 7 with nibble 0,
\* pieces 0 and 3 with another nibble, and two bytes with bit 7 set
MtcBytes == {0, 16, 32, 48, 112, 1, 53, 246, 255}

\* the fixed sequences pushed: eight bytes whose piece indexes are
\* 0, 1, 0, 2, 0, 3, 0, 7; the eight pieces of 00:03:02 frame 1 at 30 fps in
\* order; the same with piece 7 first; the second followed by the first
MtcScripts ==
    {<<0, 16, 0, 32, 0, 48, 0, 112>>,
     <<1, 16, 34, 48, 67, 80, 96, 118>>,
     <<118, 1, 16, 34, 48, 67, 80, 96>>,
     <<1, 16, 34, 48, 67, 80, 96, 118, 0, 16, 0, 32, 0, 48, 0, 112>>}

\* a zero-initialised state, either a fixed sequence to push or none, and
\* the caller's frame either zeroed or holding an earlier frame
MtcAnyStart ==
    /\ mtc_s = MtcZero /\ mtc_F = MtcFrame(0, 0, 0, 0, 0) /\ mtc_k = 0
    /\ mtc_ret = <<>>
    /\ mtc_out \in {MtcFrame(0, 0, 0, 0, 0), MtcFrame(23, 59, 59, 29, MM_MTC_30FPS)}
    /\ mtc_in \in MtcScripts \cup {<<>>} /\ mtc_qf = -1

\* one call mm_mtc_push(&state, qf, &frame)
MtcCall(qf) ==
    /\ LET r == mm_mtc_push(mtc_s, qf, mtc_out)
       IN  /\ mtc_s' = r.s
           /\ mtc_ret' = Append(mtc_ret, r.ret)
           /\ mtc_out' = r.out
    /\ mtc_k' = mtc_k + 1
    /\ mtc_qf' = qf
    /\ UNCHANGED <<mtc_F, mtc_in>>
    /\ UNCHANGED notMtc

\* the next byte of the fixed sequence is pushed
PushScripted ==
    /\ mtc_k < Len(mtc_in)
    /\ MtcCall(mtc_in[mtc_k + 1])

\* any byte is pushed
PushAny(qf) ==
    /\ mtc_in = <<>>
    /\ mtc_k < MaxPushes
    /\ MtcCall(qf)

----------------------------------------------------------------------------
(* ALSA: the SND_SEQ_EVENT_SYSEX case of mm__alsa_recv_thread              *)

\* the size of the per-device SysEx buffer, configured small
MM_SYSEX_BUF_SIZE == 3

\* the SysEx case with a chunk copied when sysex_pos + n <= MM_SYSEX_BUF_SIZE
AlsaSysexCase_le(buf, d) ==
    LET n    == Len(d)
        held == IF Len(buf) + n <= MM_SYSEX_BUF_SIZE THEN buf \o d ELSE buf
    IN  IF n > 0 /\ d[n] = 247
        THEN [buf |-> <<>>, out |-> <<held>>]
        ELSE [buf |-> held, out |-> <<>>]

\* a chunk d arrives while buf = sysex_buf[0 .. sysex_pos-1] is held: the
\* bytes held afterwards and the slices given to the callback
AlsaSysexCase(buf, d) ==
    LET n    == Len(d)
        held == IF Len(buf) + n < MM_SYSEX_BUF_SIZE THEN buf \o d ELSE buf
    IN  IF n > 0 /\ d[n] = 247
        THEN [buf |-> <<>>, out |-> <<held>>]
        ELSE [buf |-> held, out |-> <<>>]

\* number of mm_in_stop calls made while the chunks arrive
MaxRestarts == 1

\* the device after mm_in_open and the first mm_in_start
SysexRunning == [running |-> 1, stops |-> 0, kept |-> 0]

SysexIdle ==
    /\ sx_chunks = <<>> /\ sx_all = <<>> /\ sx_buf = <<>> /\ sx_cb = <<>>
    /\ sx_run = SysexRunning

SysexStart ==
    /\ sx_all \in UNION {Chunkings(s) : s \in Sysexes}
    /\ sx_chunks = sx_all /\ sx_buf = <<>> /\ sx_cb = <<>>
    /\ sx_run = SysexRunning

\* the receive thread of the Running device takes the next chunk from the
\* sequencer
AlsaSysexEvent ==
    /\ sx_chunks # <<>> /\ sx_run.running = 1
    /\ LET r == AlsaSysexCase(sx_buf, Head(sx_chunks))
       IN  /\ sx_buf' = r.buf
           /\ sx_cb' = sx_cb \o r.out
           /\ sx_run' = [sx_run EXCEPT !.kept = IF r.out = <<>> THEN @ ELSE 0]
    /\ sx_chunks' = Tail(sx_chunks)
    /\ UNCHANGED sx_all
    /\ UNCHANGED notSysex

\* mm_in_stop on the Running device between two chunks: running = 0 and the
\* thread is joined; sysex_buf and sysex_pos are not written
mm_in_stop_sysex ==
    /\ sx_run.running = 1 /\ sx_run.stops < MaxRestarts
    /\ sx_run' = [running |-> 0, stops |-> sx_run.stops + 1, kept |-> Len(sx_buf)]
    /\ UNCHANGED <<sx_chunks, sx_all, sx_buf, sx_cb>>
    /\ UNCHANGED notSysex

\* a chunk the peer sends while the device is stopped and, not being
\* virtual, disconnected from its source: no port of the client receives it
PeerChunkUnrouted ==
    /\ sx_chunks # <<>> /\ sx_run.running = 0
    /\ sx_chunks' = Tail(sx_chunks)
    /\ UNCHANGED <<sx_all, sx_buf, sx_cb, sx_run>>
    /\ UNCHANGED notSysex

\* mm_in_start on the stopped device: running = 1 and a new receive thread;
\* sysex_buf and sysex_pos are not written
mm_in_start_sysex ==
    /\ sx_run.running = 0
    /\ sx_run' = [sx_run EXCEPT !.running = 1]
    /\ UNCHANGED <<sx_chunks, sx_all, sx_buf, sx_cb>>
    /\ UNCHANGED notSysex

RestartNext ==
    \/ AlsaSysexEvent
    \/ mm_in_stop_sysex
    \/ PeerChunkUnrouted
    \/ mm_in_start_sysex

----------------------------------------------------------------------------
(* SpecCm: the life cycle of a CoreMIDI input device                       *)

\* API calls made on the device in one behaviour
MaxCalls == 4

\* what is kept of a call: the operation, its result, and whether the device
\* was open and Running when it was made
NoCall == [op |-> "none", ret |-> "none", was_open |-> 0, was_running |-> FALSE]
Call(op, ret, d, o) ==
    [op |-> op, ret |-> ret, was_open |-> d.is_open, was_running |-> o.started]
\* a call of the user callback
Callback(d, o) == Call("callback", "none", d, o)

\* memset(dev, 0, sizeof(*dev))
CmDevZero ==
    [is_open |-> 0, is_input |-> 0, is_virtual |-> 0, callback |-> 0,
     port |-> 0, virt_ep |-> 0]

CmIdle ==
    /\ cm_dev = CmDevZero
    /\ cm_os = [ports |-> {}, eps |-> {}, conn |-> {}, made |-> 0]
    /\ cm_obs = [last |-> NoCall, started |-> FALSE, calls |-> 0]

CmReturn(op, ret, started) ==
    cm_obs' = [last |-> Call(op, ret, cm_dev, cm_obs), started |-> started,
               calls |-> cm_obs.calls + 1]

\* mm_in_open with a valid context, an index in range and a callback; ok is
\* whether MIDIInputPortCreate succeeds
mm_in_open_coremidi(ok) ==
    /\ cm_obs.calls < MaxCalls
    /\ LET id == cm_os.made + 1
       IN  IF ok
           THEN /\ cm_dev' = [CmDevZero EXCEPT !.callback = 1, !.is_input = 1,
                                               !.port = id, !.is_open = 1]
                /\ cm_os' = [cm_os EXCEPT !.ports = @ \cup {id}, !.made = id]
                /\ CmReturn("mm_in_open", MM_SUCCESS, FALSE)
           ELSE /\ cm_dev' = [CmDevZero EXCEPT !.callback = 1, !.is_input = 1]
                /\ cm_os' = cm_os
                /\ CmReturn("mm_in_open", MM_ERROR, FALSE)
    /\ UNCHANGED notCm

\* mm_in_open_virtual; ok is whether MIDIDestinationCreate succeeds
mm_in_open_virtual_coremidi(ok) ==
    /\ cm_obs.calls < MaxCalls
    /\ LET id == cm_os.made + 1
       IN  IF ok
           THEN /\ cm_dev' = [CmDevZero EXCEPT !.callback = 1, !.is_input = 1,
                                               !.is_virtual = 1, !.virt_ep = id,
                                               !.is_open = 1]
                /\ cm_os' = [cm_os EXCEPT !.eps = @ \cup {id}, !.made = id]
                /\ CmReturn("mm_in_open_virtual", MM_SUCCESS, FALSE)
           ELSE /\ cm_dev' = [CmDevZero EXCEPT !.callback = 1, !.is_input = 1,
                                               !.is_virtual = 1]
                /\ cm_os' = cm_os
                /\ CmReturn("mm_in_open_virtual", MM_ERROR, FALSE)
    /\ UNCHANGED notCm

\* mm_in_start; ok is whether MIDIPortConnectSource succeeds
mm_in_start_coremidi(ok) ==
    /\ cm_obs.calls < MaxCalls
    /\ cm_dev' = cm_dev
    /\ IF cm_dev.is_open = 0 \/ cm_dev.is_input = 0
       THEN /\ cm_os' = cm_os
            /\ CmReturn("mm_in_start", MM_NOT_OPEN, cm_obs.started)
       ELSE IF cm_dev.is_virtual = 1
       THEN /\ cm_os' = cm_os
            /\ CmReturn("mm_in_start", MM_SUCCESS, TRUE)
       ELSE IF ok
       THEN /\ cm_os' = [cm_os EXCEPT !.conn = @ \cup {cm_dev.port}]
            /\ CmReturn("mm_in_start", MM_SUCCESS, TRUE)
       ELSE /\ cm_os' = cm_os
            /\ CmReturn("mm_in_start", MM_ERROR, cm_obs.started)
    /\ UNCHANGED notCm

\* mm_in_stop
mm_in_stop_coremidi ==
    /\ cm_obs.calls < MaxCalls
    /\ cm_dev' = cm_dev
    /\ IF cm_dev.is_open = 0 \/ cm_dev.is_input = 0
       THEN /\ cm_os' = cm_os
            /\ CmReturn("mm_in_stop", MM_NOT_OPEN, cm_obs.started)
       ELSE IF cm_dev.is_virtual = 1
       THEN /\ cm_os' = cm_os
            /\ CmReturn("mm_in_stop", MM_SUCCESS, FALSE)
       ELSE /\ cm_os' = [cm_os EXCEPT !.conn = @ \ {cm_dev.port}]
            /\ CmReturn("mm_in_stop", MM_SUCCESS, FALSE)
    /\ UNCHANGED notCm

\* mm_in_close: mm_in_stop, then the endpoint or the port is disposed
mm_in_close_coremidi ==
    /\ cm_obs.calls < MaxCalls
    /\ IF cm_dev.is_open = 0
       THEN /\ cm_dev' = cm_dev
            /\ cm_os' = cm_os
            /\ CmReturn("mm_in_close", MM_NOT_OPEN, cm_obs.started)
       ELSE /\ cm_dev' = [cm_dev EXCEPT !.is_open = 0]
            /\ cm_os' =
                 IF cm_dev.is_virtual = 1
                 THEN [cm_os EXCEPT !.eps = @ \ {cm_dev.virt_ep}]
                 ELSE [cm_os EXCEPT !.ports = @ \ {cm_dev.port},
                                    !.conn = @ \ {cm_dev.port}]
            /\ CmReturn("mm_in_close", MM_SUCCESS, FALSE)
    /\ UNCHANGED notCm

\* a peer sends a message: CoreMIDI calls mm__cm_read_proc, with the device
\* as its refCon, for every live port connected to the source and every live
\* virtual destination; the read proc calls the callback
CoreMidiDelivers ==
    /\ cm_os.conn # {} \/ cm_os.eps # {}
    /\ cm_dev.callback # 0
    /\ cm_obs' = [cm_obs EXCEPT !.last = Callback(cm_dev, cm_obs)]
    /\ UNCHANGED <<cm_dev, cm_os>>
    /\ UNCHANGED notCm

CmNext ==
    \/ \E ok \in BOOLEAN : mm_in_open_coremidi(ok)
    \/ \E ok \in BOOLEAN : mm_in_open_virtual_coremidi(ok)
    \/ \E ok \in BOOLEAN : mm_in_start_coremidi(ok)
    \/ mm_in_stop_coremidi
    \/ mm_in_close_coremidi
    \/ CoreMidiDelivers

----------------------------------------------------------------------------
(* ALSA: sequencer events, mm_out_send and the switch of the receive thread *)

\* snd_seq_event_t: the type and the fields of data.note and data.control the
\* library reads and writes; memset(&ev, 0, sizeof(ev))
ZeroEv ==
    [type |-> "SND_SEQ_EVENT_SYSTEM", channel |-> 0, note |-> 0, velocity |-> 0,
     param |-> 0, value |-> 0]

\* snd_seq_ev_set_noteon, _noteoff: data.note
EvNote(ty, ch, key, vel) ==
    [ZeroEv EXCEPT !.type = ty, !.channel = ch, !.note = key, !.velocity = vel]

\* snd_seq_ev_set_controller, _pgmchange, _pitchbend: data.control
EvControl(ty, ch, par, val) ==
    [ZeroEv EXCEPT !.type = ty, !.channel = ch, !.param = par, !.value = val]

\* the switch of mm_out_send: the event handed to mm__alsa_send_ev; the
\* default case leaves the zeroed event and nothing is sent
AlsaOutEvent(msg) ==
    LET ty == msg.type
        ch == msg.channel
        d0 == msg.data[1]
        d1 == msg.data[2]
    IN  CASE ty = MM_NOTE_ON  -> EvNote("SND_SEQ_EVENT_NOTEON", ch, d0, d1)
          [] ty = MM_NOTE_OFF -> EvNote("SND_SEQ_EVENT_NOTEOFF", ch, d0, d1)
          [] ty = MM_CONTROL_CHANGE ->
               EvControl("SND_SEQ_EVENT_CONTROLLER", ch, d0, d1)
          [] ty = MM_PITCH_BEND ->
               EvControl("SND_SEQ_EVENT_PITCHBEND", ch, 0,
                         BitOr(d1 * 128, d0) - 8192)
          [] ty = MM_PROGRAM_CHANGE ->
               EvControl("SND_SEQ_EVENT_PGMCHANGE", ch, 0, d0)
          [] ty = MM_CLOCK    -> [ZeroEv EXCEPT !.type = "SND_SEQ_EVENT_CLOCK"]
          [] ty = MM_START    -> [ZeroEv EXCEPT !.type = "SND_SEQ_EVENT_START"]
          [] ty = MM_CONTINUE -> [ZeroEv EXCEPT !.type = "SND_SEQ_EVENT_CONTINUE"]
          [] ty = MM_STOP     -> [ZeroEv EXCEPT !.type = "SND_SEQ_EVENT_STOP"]
          [] ty = MM_SONG_POSITION ->
               [ZeroEv EXCEPT !.type = "SND_SEQ_EVENT_SONGPOS",
                              !.value = msg.song_position]
          [] ty = MM_MTC_QUARTER_FRAME ->
               [ZeroEv EXCEPT !.type = "SND_SEQ_EVENT_QFRAME", !.value = d0]
          [] ty = MM_SONG_SELECT ->
               [ZeroEv EXCEPT !.type = "SND_SEQ_EVENT_SONGSEL", !.value = d0]
          [] ty = MM_TUNE_REQUEST ->
               [ZeroEv EXCEPT !.type = "SND_SEQ_EVENT_TUNE_REQUEST"]
          [] ty = MM_ACTIVE_SENSE ->
               [ZeroEv EXCEPT !.type = "SND_SEQ_EVENT_SENSING"]
          [] ty = MM_RESET -> [ZeroEv EXCEPT !.type = "SND_SEQ_EVENT_RESET"]
          [] OTHER -> ZeroEv

\* the result of the switch of mm_out_send: the default case returns
\* MM_INVALID_ARG and sends nothing
AlsaOutRet(msg) ==
    IF AlsaOutEvent(msg) = ZeroEv THEN MM_INVALID_ARG ELSE MM_SUCCESS

\* a message of one kind with nothing else set
MsgOfType(ty) == [ZeroMsg EXCEPT !.type = ty]

\* the switch (ev->type) of the receive thread, the SysEx case apart: the
\* messages given to the callback for one event
AlsaEventToMsg(e) ==
    LET ty   == e.type
        note == [ZeroMsg EXCEPT !.channel = e.channel,
                                !.data = <<e.note, e.velocity>>]
        ctl1 == [ZeroMsg EXCEPT !.channel = e.channel,
                                !.data = <<e.value % 256, 0>>]
        pb   == e.value + 8192
        pos  == e.value % 65536
    IN  CASE ty = "SND_SEQ_EVENT_NOTEON" ->
               <<[note EXCEPT !.type = IF e.velocity > 0 THEN MM_NOTE_ON
                                                          ELSE MM_NOTE_OFF]>>
          [] ty = "SND_SEQ_EVENT_NOTEOFF"  -> <<[note EXCEPT !.type = MM_NOTE_OFF]>>
          [] ty = "SND_SEQ_EVENT_KEYPRESS" -> <<[note EXCEPT !.type = MM_POLY_PRESSURE]>>
          [] ty = "SND_SEQ_EVENT_CONTROLLER" ->
               <<[ZeroMsg EXCEPT !.type = MM_CONTROL_CHANGE, !.channel = e.channel,
                                 !.data = <<e.param % 256, e.value % 256>>]>>
          [] ty = "SND_SEQ_EVENT_PGMCHANGE" -> <<[ctl1 EXCEPT !.type = MM_PROGRAM_CHANGE]>>
          [] ty = "SND_SEQ_EVENT_CHANPRESS" -> <<[ctl1 EXCEPT !.type = MM_CHANNEL_PRESSURE]>>
          [] ty = "SND_SEQ_EVENT_PITCHBEND" ->
               <<[ZeroMsg EXCEPT !.type = MM_PITCH_BEND, !.channel = e.channel,
                                 !.data = <<pb % 128, (pb \div 128) % 128>>]>>
          [] ty = "SND_SEQ_EVENT_CLOCK"    -> <<MsgOfType(MM_CLOCK)>>
          [] ty = "SND_SEQ_EVENT_START"    -> <<MsgOfType(MM_START)>>
          [] ty = "SND_SEQ_EVENT_CONTINUE" -> <<MsgOfType(MM_CONTINUE)>>
          [] ty = "SND_SEQ_EVENT_STOP"     -> <<MsgOfType(MM_STOP)>>
          [] ty = "SND_SEQ_EVENT_SONGPOS" ->
               <<[ZeroMsg EXCEPT !.type = MM_SONG_POSITION, !.song_position = pos,
                                 !.data = <<pos % 128, (pos \div 128) % 128>>]>>
          [] ty = "SND_SEQ_EVENT_QFRAME" ->
               <<[ZeroMsg EXCEPT !.type = MM_MTC_QUARTER_FRAME,
                                 !.data = <<e.value % 256, 0>>]>>
          [] ty = "SND_SEQ_EVENT_SONGSEL" ->
               <<[ZeroMsg EXCEPT !.type = MM_SONG_SELECT,
                                 !.data = <<e.value % 256, 0>>]>>
          [] ty = "SND_SEQ_EVENT_SENSING"      -> <<MsgOfType(MM_ACTIVE_SENSE)>>
          [] ty = "SND_SEQ_EVENT_TUNE_REQUEST" -> <<MsgOfType(MM_TUNE_REQUEST)>>
          [] ty = "SND_SEQ_EVENT_RESET"        -> <<MsgOfType(MM_RESET)>>
          [] OTHER -> <<>>

----------------------------------------------------------------------------
(* Spec: the life cycle of an ALSA device                                  *)

\* pipes and ports created in one behaviour
MaxOpens == 2
\* receive threads created in one behaviour
MaxThreads == 2
\* events that arrive from peers in one behaviour
MaxEvents == 2

\* memset(dev, 0, sizeof(*dev))
DevZero ==
    [is_open |-> 0, is_input |-> 0, is_virtual |-> 0, callback |-> 0,
     port_id |-> 0, running |-> 0, thread |-> 0, wake_pipe |-> 0]

AlsaIdle ==
    /\ dev = DevZero
    /\ os = [ports |-> {}, subs |-> {}, vin |-> {}, made |-> 0, queue |-> 0,
             arrived |-> 0, closed0 |-> FALSE, sent |-> 0, conn |-> {}]
    /\ pipe = <<>>
    /\ thr = <<>>
    /\ own = [pc |-> "idle", op |-> "none"]
    /\ obs = [last |-> NoCall, started |-> FALSE, calls |-> 0]

Return(op, ret, started) ==
    obs' = [last |-> Call(op, ret, dev, obs), started |-> started,
            calls |-> obs.calls + 1]

CanCall == own.pc = "idle" /\ obs.calls < MaxCalls

\* the opens: mm_in_open, mm_in_open_virtual, mm_out_open, mm_out_open_virtual
\* with an initialized context, an index in range and a callback; ok is
\* whether snd_seq_create_simple_port succeeds.  pipe() succeeds.
OpenInput(op, virtual, ok) ==
    /\ CanCall /\ Len(pipe) < MaxOpens /\ os.made < MaxOpens
    /\ LET w  == Len(pipe) + 1
           id == os.made + 1
           d  == [DevZero EXCEPT !.callback = 1, !.is_input = 1,
                                 !.is_virtual = virtual, !.wake_pipe = w]
       IN  IF ok
           THEN /\ dev' = [d EXCEPT !.port_id = id, !.is_open = 1]
                /\ pipe' = Append(pipe, [open |-> TRUE, bytes |-> 0])
                /\ os' = [os EXCEPT !.ports = @ \cup {id}, !.made = id,
                                    !.vin = IF virtual = 1 THEN @ \cup {id} ELSE @]
                /\ Return(op, MM_SUCCESS, FALSE)
           ELSE /\ dev' = [d EXCEPT !.port_id = -1]
                /\ pipe' = Append(pipe, [open |-> FALSE, bytes |-> 0])
                /\ os' = os
                /\ Return(op, MM_ERROR, FALSE)
    /\ UNCHANGED <<thr, own>>
    /\ UNCHANGED notAlsa

OpenOutput(op, virtual, ok) ==
    /\ CanCall /\ os.made < MaxOpens
    /\ LET id == os.made + 1
           d  == [DevZero EXCEPT !.is_virtual = virtual]
       IN  IF ok
           THEN /\ dev' = [d EXCEPT !.port_id = id, !.is_open = 1]
                /\ os' = [os EXCEPT !.ports = @ \cup {id}, !.made = id]
                /\ Return(op, MM_SUCCESS, FALSE)
           ELSE /\ dev' = [d EXCEPT !.port_id = -1]
                /\ os' = os
                /\ Return(op, MM_ERROR, FALSE)
    /\ UNCHANGED <<pipe, thr, own>>
    /\ UNCHANGED notAlsa

mm_in_open(ok) ==
    /\ CanCall
    /\ OpenInput("mm_in_open", 0, ok)

mm_in_open_virtual(ok) ==
    /\ CanCall
    /\ OpenInput("mm_in_open_virtual", 1, ok)

mm_out_open(ok) ==
    /\ CanCall
    /\ OpenOutput("mm_out_open", 0, ok)

mm_out_open_virtual(ok) ==
    /\ CanCall
    /\ OpenOutput("mm_out_open_virtual", 1, ok)

\* mm_out_close
mm_out_close ==
    /\ CanCall
    /\ IF dev.is_open = 0
       THEN /\ UNCHANGED <<dev, os>>
            /\ Return("mm_out_close", MM_NOT_OPEN, obs.started)
       ELSE /\ dev' = [dev EXCEPT !.is_open = 0]
            /\ os' = [os EXCEPT !.ports = @ \ {dev.port_id},
                                !.subs = @ \ {dev.port_id},
                                !.vin = @ \ {dev.port_id}]
            /\ Return("mm_out_close", MM_SUCCESS, FALSE)
    /\ UNCHANGED <<pipe, thr, own>>
    /\ UNCHANGED notAlsa

\* the messages handed to mm_out_send in the life cycle: a NoteOn and a
\* PolyPressure
LifeCycleMsgs ==
    {[ZeroMsg EXCEPT !.type = MM_NOTE_ON, !.data = <<60, 100>>],
     [ZeroMsg EXCEPT !.type = MM_POLY_PRESSURE, !.data = <<60, 100>>]}

\* mm_out_send with a message; mm__alsa_send_ev outputs the event
mm_out_send(msg) ==
    /\ CanCall
    /\ IF dev.is_open = 0 \/ dev.is_input = 1
       THEN /\ os' = os
            /\ Return("mm_out_send", MM_NOT_OPEN, obs.started)
       ELSE IF AlsaOutRet(msg) = MM_INVALID_ARG
       THEN /\ os' = os
            /\ Return("mm_out_send", MM_INVALID_ARG, obs.started)
       ELSE /\ os' = [os EXCEPT !.sent = @ + 1]
            /\ Return("mm_out_send", MM_SUCCESS, obs.started)
    /\ UNCHANGED <<dev, pipe, thr, own>>
    /\ UNCHANGED notAlsa

\* mm_out_send_sysex with size bytes of data
mm_out_send_sysex(size) ==
    /\ CanCall
    /\ IF dev.is_open = 0 \/ dev.is_input = 1
       THEN /\ os' = os
            /\ Return("mm_out_send_sysex", MM_NOT_OPEN, obs.started)
       ELSE IF size = 0 \/ size > MM_SYSEX_BUF_SIZE
       THEN /\ os' = os
            /\ Return("mm_out_send_sysex", MM_INVALID_ARG, obs.started)
       ELSE /\ os' = [os EXCEPT !.sent = @ + 1]
            /\ Return("mm_out_send_sysex", MM_SUCCESS, obs.started)
    /\ UNCHANGED <<dev, pipe, thr, own>>
    /\ UNCHANGED notAlsa

\* a receive thread as pthread_create leaves it
NewThread == [pc |-> "start", pfd |-> 0, joined |-> FALSE]

\* mm_in_start with the connect made for a virtual device as well
mm_in_start_connects(conn_ok, thr_ok) ==
    /\ CanCall /\ Len(thr) < MaxThreads
    /\ IF dev.is_open = 0 \/ dev.is_input = 0
       THEN /\ UNCHANGED <<dev, os, thr>>
            /\ Return("mm_in_start", MM_NOT_OPEN, obs.started)
       ELSE /\ os' = IF TRUE
                     THEN [os EXCEPT
                             !.conn = @ \cup {[call |-> "connect_from",
                                               port |-> dev.port_id]},
                             !.subs = IF conn_ok /\ dev.port_id \in os.ports
                                      THEN @ \cup {dev.port_id} ELSE @]
                     ELSE os
            /\ thr' = IF thr_ok THEN Append(thr, NewThread) ELSE thr
            /\ dev' = [dev EXCEPT !.running = 1,
                                  !.thread = IF thr_ok THEN Len(thr) + 1 ELSE @]
            /\ Return("mm_in_start", MM_SUCCESS, TRUE)
    /\ UNCHANGED <<pipe, own>>
    /\ UNCHANGED notAlsa

\* mm_in_start: connect (unless virtual), running = 1, pthread_create.
\* conn_ok is whether snd_seq_connect_from succeeds, thr_ok whether
\* pthread_create does; neither result is looked at.  A pthread_create that
\* fails leaves the thread handle as it was.
mm_in_start(conn_ok, thr_ok) ==
    /\ CanCall /\ Len(thr) < MaxThreads
    /\ IF dev.is_open = 0 \/ dev.is_input = 0
       THEN /\ UNCHANGED <<dev, os, thr>>
            /\ Return("mm_in_start", MM_NOT_OPEN, obs.started)
       ELSE /\ os' = IF dev.is_virtual = 0
                     THEN [os EXCEPT
                             !.conn = @ \cup {[call |-> "connect_from",
                                               port |-> dev.port_id]},
                             !.subs = IF conn_ok /\ dev.port_id \in os.ports
                                      THEN @ \cup {dev.port_id} ELSE @]
                     ELSE os
            /\ thr' = IF thr_ok THEN Append(thr, NewThread) ELSE thr
            /\ dev' = [dev EXCEPT !.running = 1,
                                  !.thread = IF thr_ok THEN Len(thr) + 1 ELSE @]
            /\ Return("mm_in_start", MM_SUCCESS, TRUE)
    /\ UNCHANGED <<pipe, own>>
    /\ UNCHANGED notAlsa

\* mm_in_stop up to running = 0
mm_in_stop ==
    /\ CanCall
    /\ IF dev.is_open = 0 \/ dev.is_input = 0
       THEN /\ UNCHANGED <<dev, own>>
            /\ Return("mm_in_stop", MM_NOT_OPEN, obs.started)
       ELSE /\ dev' = [dev EXCEPT !.running = 0]
            /\ own' = [pc |-> "stop_write", op |-> "mm_in_stop"]
            /\ UNCHANGED obs
    /\ UNCHANGED <<os, pipe, thr>>
    /\ UNCHANGED notAlsa

\* close(wake_pipe[0]); close(wake_pipe[1]); snd_seq_delete_port; is_open = 0.
\* A device that never made a pipe holds the descriptors {0, 0}.
CloseTail ==
    /\ pipe' = IF dev.wake_pipe \in 1..Len(pipe)
               THEN [pipe EXCEPT ![dev.wake_pipe].open = FALSE]
               ELSE pipe
    /\ os' = [os EXCEPT !.ports = @ \ {dev.port_id},
                        !.subs = @ \ {dev.port_id},
                        !.vin = @ \ {dev.port_id},
                        !.closed0 = @ \/ dev.wake_pipe = 0]
    /\ dev' = [dev EXCEPT !.is_open = 0]
    /\ Return("mm_in_close", MM_SUCCESS, FALSE)

\* mm_in_close up to the call of mm_in_stop, or to its end on a device whose
\* running flag is 0
mm_in_close ==
    /\ CanCall
    /\ IF dev.is_open = 0
       THEN /\ UNCHANGED <<dev, os, pipe, own>>
            /\ Return("mm_in_close", MM_NOT_OPEN, obs.started)
       ELSE IF dev.running = 1 /\ dev.is_input = 1
       THEN /\ dev' = [dev EXCEPT !.running = 0]
            /\ own' = [pc |-> "stop_write", op |-> "mm_in_close"]
            /\ UNCHANGED <<os, pipe, obs>>
       ELSE /\ CloseTail
            /\ UNCHANGED own
    /\ UNCHANGED thr
    /\ UNCHANGED notAlsa

\* mm_in_stop: write(wake_pipe[1], &c, 1)
StopWrite ==
    /\ own.pc = "stop_write"
    /\ pipe' = IF dev.wake_pipe \in 1..Len(pipe) /\ pipe[dev.wake_pipe].open
               THEN [pipe EXCEPT ![dev.wake_pipe].bytes = @ + 1]
               ELSE pipe
    /\ own' = [own EXCEPT !.pc = "stop_join"]
    /\ UNCHANGED <<dev, os, thr, obs>>
    /\ UNCHANGED notAlsa

\* does dev->al.thread name a thread that can be joined
Joinable == dev.thread \in 1..Len(thr) /\ ~thr[dev.thread].joined

\* what follows pthread_join in mm_in_stop: disconnect (unless virtual) and
\* return; in mm_in_close the rest of mm_in_close follows
AfterJoin ==
    /\ own' = [pc |-> "idle", op |-> "none"]
    /\ IF own.op = "mm_in_stop"
       THEN /\ os' = IF dev.is_virtual = 0
                     THEN [os EXCEPT
                             !.conn = @ \cup {[call |-> "disconnect_from",
                                               port |-> dev.port_id]},
                             !.subs = @ \ {dev.port_id}]
                     ELSE os
            /\ UNCHANGED <<dev, pipe>>
            /\ Return("mm_in_stop", MM_SUCCESS, FALSE)
       ELSE CloseTail

\* mm_in_stop: pthread_join returns once the thread has returned
StopJoin ==
    /\ own.pc = "stop_join"
    /\ Joinable
    /\ thr[dev.thread].pc = "done"
    /\ thr' = [thr EXCEPT ![dev.thread].joined = TRUE]
    /\ AfterJoin
    /\ UNCHANGED notAlsa

\* mm_in_stop: pthread_join of a handle that names no joinable thread (never
\* created, or joined before) is undefined: it returns at once or the process
\* dies
StopJoinInvalid ==
    /\ own.pc = "stop_join"
    /\ ~Joinable
    /\ \/ /\ AfterJoin
          /\ UNCHANGED thr
       \/ /\ own' = [own EXCEPT !.pc = "crashed"]
          /\ UNCHANGED <<dev, os, pipe, thr, obs>>
    /\ UNCHANGED notAlsa

Alive == own.pc # "crashed"

Threads == 1..Len(thr)

\* mm__alsa_recv_thread up to the loop: the pollfd set is built
ThreadStart(i) ==
    /\ Alive /\ thr[i].pc = "start"
    /\ thr' = [thr EXCEPT ![i].pc = "check", ![i].pfd = dev.wake_pipe]
    /\ UNCHANGED <<dev, os, pipe, own, obs>>
    /\ UNCHANGED notAlsa

\* while (da->running)
ThreadCheck(i) ==
    /\ Alive /\ thr[i].pc = "check"
    /\ thr' = [thr EXCEPT ![i].pc = IF dev.running = 1 THEN "poll" ELSE "done"]
    /\ UNCHANGED <<dev, os, pipe, own, obs>>
    /\ UNCHANGED notAlsa

\* the wake pipe of the pollfd set is readable
WakeReadable(i) ==
    thr[i].pfd \in 1..Len(pipe) /\ pipe[thr[i].pfd].open /\ pipe[thr[i].pfd].bytes > 0

\* the wake pipe of the pollfd set is closed
WakeClosed(i) ==
    thr[i].pfd \in 1..Len(pipe) /\ ~pipe[thr[i].pfd].open

\* poll() returns: a descriptor is ready.  With POLLIN on the wake pipe the
\* thread goes on to read it, else to drain the sequencer
ThreadPoll(i) ==
    /\ Alive /\ thr[i].pc = "poll"
    /\ WakeReadable(i) \/ WakeClosed(i) \/ os.queue > 0
    /\ thr' = [thr EXCEPT ![i].pc = IF WakeReadable(i) THEN "read" ELSE "drain"]
    /\ UNCHANGED <<dev, os, pipe, own, obs>>
    /\ UNCHANGED notAlsa

\* read(da->wake_pipe[0], &c, 1); break: blocks on an open empty pipe
ThreadRead(i) ==
    /\ Alive /\ thr[i].pc = "read"
    /\ LET w == dev.wake_pipe
       IN  IF w \in 1..Len(pipe) /\ pipe[w].open
           THEN /\ pipe[w].bytes > 0
                /\ pipe' = [pipe EXCEPT ![w].bytes = @ - 1]
           ELSE pipe' = pipe
    /\ thr' = [thr EXCEPT ![i].pc = "done"]
    /\ UNCHANGED <<dev, os, own, obs>>
    /\ UNCHANGED notAlsa

\* the drain loop: with an event pending it is taken and the callback called,
\* else back to while (da->running).  Calling a null callback kills the process
ThreadDrain(i) ==
    /\ Alive /\ thr[i].pc = "drain"
    /\ IF os.queue > 0
       THEN /\ os' = [os EXCEPT !.queue = @ - 1]
            /\ IF dev.callback # 0
               THEN /\ thr' = [thr EXCEPT ![i].pc = "cb"]
                    /\ obs' = [obs EXCEPT !.last = Callback(dev, obs)]
                    /\ own' = own
               ELSE /\ own' = [own EXCEPT !.pc = "crashed"]
                    /\ UNCHANGED <<thr, obs>>
       ELSE /\ thr' = [thr EXCEPT ![i].pc = "check"]
            /\ UNCHANGED <<os, own, obs>>
    /\ UNCHANGED <<dev, pipe>>
    /\ UNCHANGED notAlsa

\* the callback returns
ThreadCallbackReturns(i) ==
    /\ Alive /\ thr[i].pc = "cb"
    /\ thr' = [thr EXCEPT ![i].pc = "drain"]
    /\ UNCHANGED <<dev, os, pipe, own, obs>>
    /\ UNCHANGED notAlsa

\* a peer's event reaches the sequencer's input queue: through a subscription
\* made by mm_in_start, or sent by a peer to a virtual input port
EventArrives ==
    /\ Alive /\ os.arrived < MaxEvents
    /\ (os.subs \cup os.vin) \cap os.ports # {}
    /\ os' = [os EXCEPT !.queue = @ + 1, !.arrived = @ + 1]
    /\ UNCHANGED <<dev, pipe, thr, own, obs>>
    /\ UNCHANGED notAlsa

OwnerStep ==
    \/ StopWrite
    \/ StopJoin
    \/ StopJoinInvalid

ThreadStep(i) ==
    \/ ThreadStart(i)
    \/ ThreadCheck(i)
    \/ ThreadPoll(i)
    \/ ThreadRead(i)
    \/ ThreadDrain(i)
    \/ ThreadCallbackReturns(i)

AlsaNext ==
    \/ \E ok \in BOOLEAN : mm_in_open(ok)
    \/ \E ok \in BOOLEAN : mm_in_open_virtual(ok)
    \/ \E ok \in BOOLEAN : mm_out_open(ok)
    \/ \E ok \in BOOLEAN : mm_out_open_virtual(ok)
    \/ mm_out_close
    \/ \E msg \in LifeCycleMsgs : mm_out_send(msg)
    \/ \E size \in {0, 2, MM_SYSEX_BUF_SIZE + 1} : mm_out_send_sysex(size)
    \/ \E conn_ok, thr_ok \in BOOLEAN : mm_in_start(conn_ok, thr_ok)
    \/ mm_in_stop
    \/ mm_in_close
    \/ StopWrite
    \/ StopJoin
    \/ StopJoinInvalid
    \/ \E i \in Threads : ThreadStart(i)
    \/ \E i \in Threads : ThreadCheck(i)
    \/ \E i \in Threads : ThreadPoll(i)
    \/ \E i \in Threads : ThreadRead(i)
    \/ \E i \in Threads : ThreadDrain(i)
    \/ \E i \in Threads : ThreadCallbackReturns(i)
    \/ EventArrives

----------------------------------------------------------------------------
(* SpecEvent: mm_out_send and the receive switch of the ALSA backend       *)

\* calls and arriving events in one behaviour
MaxAlsaEvents == 2

\* values of the 8-bit channel field tried: the lowest, the highest valid and
\* one above 15
EvChannels == {0, 15, 16}

NoteEventTypes ==
    {"SND_SEQ_EVENT_NOTEON", "SND_SEQ_EVENT_NOTEOFF", "SND_SEQ_EVENT_KEYPRESS"}
ControlEventTypes ==
    {"SND_SEQ_EVENT_CONTROLLER", "SND_SEQ_EVENT_PGMCHANGE",
     "SND_SEQ_EVENT_CHANPRESS"}
\* events without payload; SND_SEQ_EVENT_PORT_START is one the switch has no
\* case for
PlainEventTypes ==
    {"SND_SEQ_EVENT_CLOCK", "SND_SEQ_EVENT_START", "SND_SEQ_EVENT_CONTINUE",
     "SND_SEQ_EVENT_STOP", "SND_SEQ_EVENT_SENSING", "SND_SEQ_EVENT_TUNE_REQUEST",
     "SND_SEQ_EVENT_RESET", "SND_SEQ_EVENT_PORT_START"}

\* the events a peer application sends to the input port
PeerEvents ==
    {EvNote(ty, ch, 60, 100) : ty \in NoteEventTypes, ch \in EvChannels}
    \cup
    {EvNote("SND_SEQ_EVENT_NOTEON", ch, 60, 0) : ch \in EvChannels}
    \cup
    {EvControl(ty, ch, 7, 100) : ty \in ControlEventTypes, ch \in EvChannels}
    \cup
    {EvControl("SND_SEQ_EVENT_PITCHBEND", ch, 0, val) :
        ch \in EvChannels, val \in {-8192, 8191}}
    \cup
    {[ZeroEv EXCEPT !.type = ty, !.value = 100] :
        ty \in {"SND_SEQ_EVENT_SONGPOS", "SND_SEQ_EVENT_QFRAME",
                "SND_SEQ_EVENT_SONGSEL"}}
    \cup
    {[ZeroEv EXCEPT !.type = "SND_SEQ_EVENT_SONGPOS", !.value = val] :
        val \in {16383, 16384}}
    \cup
    {[ZeroEv EXCEPT !.type = ty] : ty \in PlainEventTypes}

\* enum mm_message_type
MessageTypes ==
    {MM_NOTE_OFF, MM_NOTE_ON, MM_POLY_PRESSURE, MM_CONTROL_CHANGE,
     MM_PROGRAM_CHANGE, MM_CHANNEL_PRESSURE, MM_PITCH_BEND, MM_SYSEX,
     MM_MTC_QUARTER_FRAME, MM_SONG_POSITION, MM_SONG_SELECT, MM_TUNE_REQUEST,
     MM_CLOCK, MM_START, MM_CONTINUE, MM_STOP, MM_ACTIVE_SENSE, MM_RESET}

\* the messages the application gives to mm_out_send: every kind; the kinds
\* with a channel with every sampled value of the 8-bit channel field
EventMsgs ==
    {[ZeroMsg EXCEPT !.type = ty, !.channel = ch, !.data = <<60, 100>>] :
        ty \in ChannelTypes, ch \in EvChannels}
    \cup
    {[ZeroMsg EXCEPT !.type = MM_NOTE_ON, !.channel = ch, !.data = <<60, 0>>] :
        ch \in EvChannels}
    \cup
    {[ZeroMsg EXCEPT !.type = ty, !.data = <<60, 0>>] :
        ty \in MessageTypes \ ChannelTypes}

EventIdle ==
    /\ ev_q = <<>>
    /\ ev_calls = <<>>
    /\ ev_cb = <<>>

EventsDone == Len(ev_calls) + Len(ev_cb) + Len(ev_q)

\* a peer's event arrives at the input port of a Running device
PeerSendsEvent(e) ==
    /\ ev_q = <<>>
    /\ EventsDone < MaxAlsaEvents
    /\ ev_q' = <<e>>
    /\ UNCHANGED <<ev_calls, ev_cb>>
    /\ UNCHANGED notEvent

\* one turn of the drain loop of mm__alsa_recv_thread: the event is taken
\* from the queue and the callback is called with the messages of its case
mm__alsa_recv_event ==
    /\ ev_q # <<>>
    /\ LET e == Head(ev_q)
           msgs == AlsaEventToMsg(e)
       IN  /\ ev_q' = Tail(ev_q)
           /\ ev_cb' = ev_cb \o [i \in 1..Len(msgs) |-> [ev |-> e, msg |-> msgs[i]]]
    /\ UNCHANGED ev_calls
    /\ UNCHANGED notEvent

\* mm_out_send(dev, msg) on an Opened output device with msg not null:
\* mm__alsa_send_ev hands the event of the switch to the sequencer
mm_out_send_event(msg) ==
    /\ EventsDone < MaxAlsaEvents
    /\ ev_calls' = Append(ev_calls,
           [msg |-> msg, ret |-> AlsaOutRet(msg),
            sent |-> IF AlsaOutRet(msg) = MM_SUCCESS THEN <<AlsaOutEvent(msg)>>
                                                     ELSE <<>>])
    /\ UNCHANGED <<ev_q, ev_cb>>
    /\ UNCHANGED notEvent

EventNext ==
    \/ \E e \in PeerEvents : PeerSendsEvent(e)
    \/ mm__alsa_recv_event
    \/ \E msg \in EventMsgs : mm_out_send_event(msg)

----------------------------------------------------------------------------
(* SpecArgs: the context and the argument checks of the three backends     *)

\* the most sources, and the most destinations, the OS lists
MaxEndpoints == 1

Backends == {"coremidi", "winmm", "alsa"}

\* mm_context: the initialized flag and the OS client (CoreMIDI client, ALSA
\* sequencer handle; WinMM has none)
CtxZero == [initialized |-> 0, client |-> "none"]

\* mm_device: the fields the open functions write
ArgDevZero ==
    [ctx |-> 0, callback |-> 0, is_open |-> 0, is_input |-> 0, is_virtual |-> 0]

\* the end of every open function: the OS object is made or not
OpenEnd(newdev, ok) ==
    IF ok THEN [ret |-> MM_SUCCESS, dev |-> [newdev EXCEPT !.is_open = 1]]
          ELSE [ret |-> MM_ERROR, dev |-> newdev]

Fails(ret, d) == [ret |-> ret, dev |-> d]

\* memset(dev, 0, sizeof(*dev)) and the fields set after it
InDev(virtual) ==
    [ArgDevZero EXCEPT !.ctx = 1, !.callback = 1, !.is_input = 1,
                       !.is_virtual = virtual]
OutDev(virtual) == [ArgDevZero EXCEPT !.ctx = 1, !.is_virtual = virtual]

\* mm_context_init: [ret, ctx]
ContextInit(be, ctx_null, ok) ==
    IF ctx_null THEN [ret |-> MM_INVALID_ARG, ctx |-> a_ctx]
    ELSE IF be = "winmm" THEN [ret |-> MM_SUCCESS, ctx |-> [CtxZero EXCEPT !.initialized = 1]]
    ELSE IF ~ok THEN [ret |-> MM_ERROR, ctx |-> CtxZero]
    ELSE [ret |-> MM_SUCCESS, ctx |-> [initialized |-> 1, client |-> "live"]]

\* mm_context_uninit: [ret, ctx]
ContextUninit(be, ctx_null) ==
    IF be = "winmm"
    THEN IF ctx_null THEN [ret |-> MM_INVALID_ARG, ctx |-> a_ctx]
         ELSE [ret |-> MM_SUCCESS, ctx |-> [a_ctx EXCEPT !.initialized = 0]]
    ELSE IF ctx_null \/ a_ctx.initialized = 0
         THEN [ret |-> MM_INVALID_ARG, ctx |-> a_ctx]
         ELSE [ret |-> MM_SUCCESS, ctx |-> [initialized |-> 0, client |-> "disposed"]]

\* CoreMIDI makes a port or an endpoint only for a client that exists
CmClientOk(ok) == ok /\ a_ctx.client = "live"

\* mm_in_open: [ret, dev]; n is the number of sources now
InOpen(be, ctx_null, dev_null, cb_null, idx, n, ok) ==
    CASE be = "coremidi" ->
           IF ctx_null \/ dev_null \/ cb_null THEN Fails(MM_INVALID_ARG, a_dev)
           ELSE IF idx >= n THEN Fails(MM_OUT_OF_RANGE, a_dev)
           ELSE OpenEnd(InDev(0), CmClientOk(ok))
      [] be = "winmm" ->
           IF ctx_null \/ dev_null \/ cb_null THEN Fails(MM_INVALID_ARG, a_dev)
           ELSE OpenEnd(InDev(0), ok /\ idx < n)
      [] be = "alsa" ->
           IF ctx_null \/ a_ctx.initialized = 0 \/ dev_null \/ cb_null
           THEN Fails(MM_INVALID_ARG, a_dev)
           ELSE IF idx >= n THEN Fails(MM_OUT_OF_RANGE, a_dev)
           ELSE OpenEnd(InDev(0), ok)

\* mm_out_open: [ret, dev]; n is the number of destinations now
OutOpen(be, ctx_null, dev_null, idx, n, ok) ==
    CASE be = "coremidi" ->
           IF ctx_null \/ dev_null THEN Fails(MM_INVALID_ARG, a_dev)
           ELSE IF idx >= n THEN Fails(MM_OUT_OF_RANGE, a_dev)
           ELSE OpenEnd(OutDev(0), CmClientOk(ok))
      [] be = "winmm" ->
           IF ctx_null \/ dev_null THEN Fails(MM_INVALID_ARG, a_dev)
           ELSE OpenEnd(OutDev(0), ok /\ idx < n)
      [] be = "alsa" ->
           IF ctx_null \/ a_ctx.initialized = 0 \/ dev_null
           THEN Fails(MM_INVALID_ARG, a_dev)
           ELSE IF idx >= n THEN Fails(MM_OUT_OF_RANGE, a_dev)
           ELSE OpenEnd(OutDev(0), ok)

\* mm_in_open_virtual: [ret, dev]
InOpenVirtual(be, ctx_null, dev_null, cb_null, ok) ==
    CASE be = "coremidi" ->
           IF ctx_null \/ dev_null \/ cb_null THEN Fails(MM_INVALID_ARG, a_dev)
           ELSE OpenEnd(InDev(1), CmClientOk(ok))
      [] be = "winmm" -> Fails(MM_NO_BACKEND, a_dev)
      [] be = "alsa" ->
           IF ctx_null \/ a_ctx.initialized = 0 \/ dev_null \/ cb_null
           THEN Fails(MM_INVALID_ARG, a_dev)
           ELSE OpenEnd(InDev(1), ok)

\* mm_out_open_virtual: [ret, dev]
OutOpenVirtual(be, ctx_null, dev_null, ok) ==
    CASE be = "coremidi" ->
           IF ctx_null \/ dev_null THEN Fails(MM_INVALID_ARG, a_dev)
           ELSE OpenEnd(OutDev(1), CmClientOk(ok))
      [] be = "winmm" -> Fails(MM_NO_BACKEND, a_dev)
      [] be = "alsa" ->
           IF ctx_null \/ a_ctx.initialized = 0 \/ dev_null
           THEN Fails(MM_INVALID_ARG, a_dev)
           ELSE OpenEnd(OutDev(1), ok)

\* mm_in_name and mm_out_name with a buffer: the result; n is the number of
\* endpoints of the direction now, ok whether the endpoint has a name
EndpointName(be, ctx_null, idx, n, ok) ==
    CASE be = "coremidi" ->
           IF idx >= n THEN MM_OUT_OF_RANGE
           ELSE IF ok THEN MM_SUCCESS ELSE MM_ERROR
      [] be = "winmm" ->
           IF idx >= n THEN MM_OUT_OF_RANGE ELSE MM_SUCCESS
      [] be = "alsa" ->
           IF ctx_null \/ a_ctx.initialized = 0 THEN MM_INVALID_ARG
           ELSE IF idx >= n THEN MM_OUT_OF_RANGE
           ELSE MM_SUCCESS

NoArgCall ==
    [op |-> "none", ret |-> MM_SUCCESS, ctx_null |-> FALSE, dev_null |-> FALSE,
     cb_null |-> FALSE, idx |-> 0, n |-> 0, life |-> "fresh",
     dev_before |-> ArgDevZero]

ArgsIdle ==
    /\ a_be = "alsa"
    /\ a_ctx = CtxZero
    /\ a_dev = ArgDevZero
    /\ a_os = [nin |-> 0, nout |-> 0]
    /\ a_obs = [last |-> NoArgCall, life |-> "fresh"]

\* the library is compiled for one backend; the context and the device are
\* zeroed structures; the OS lists some sources and destinations
ArgsStart ==
    /\ a_be \in Backends
    /\ a_ctx = CtxZero
    /\ a_dev = ArgDevZero
    /\ a_os \in [nin : 0..MaxEndpoints, nout : 0..MaxEndpoints]
    /\ a_obs = [last |-> NoArgCall, life |-> "fresh"]

\* what the observer keeps of a call: life is the life of the context
\* before the call
ArgCall(op, ret, ctx_null, dev_null, cb_null, idx, n) ==
    [op |-> op, ret |-> ret, ctx_null |-> ctx_null, dev_null |-> dev_null,
     cb_null |-> cb_null, idx |-> idx, n |-> n, life |-> a_obs.life,
     dev_before |-> a_dev]

\* a call that leaves the context as it is
ArgReturn(call, d) ==
    /\ a_dev' = d
    /\ a_obs' = [a_obs EXCEPT !.last = call]
    /\ UNCHANGED <<a_be, a_ctx, a_os>>
    /\ UNCHANGED notArgs

\* a MIDI device is plugged in or taken away
EndpointsChange ==
    /\ \E o \in [nin : 0..MaxEndpoints, nout : 0..MaxEndpoints] :
          /\ o # a_os
          /\ a_os' = o
    /\ UNCHANGED <<a_be, a_ctx, a_dev, a_obs>>
    /\ UNCHANGED notArgs

mm_context_init(ctx_null, ok) ==
    LET r == ContextInit(a_be, ctx_null, ok)
    IN  /\ a_ctx' = r.ctx
        /\ a_obs' = [last |-> ArgCall("mm_context_init", r.ret, ctx_null, FALSE,
                                      FALSE, 0, 0),
                     life |-> IF ctx_null THEN a_obs.life
                              ELSE IF r.ret = MM_SUCCESS THEN "ready"
                              ELSE "fresh"]
        /\ UNCHANGED <<a_be, a_dev, a_os>>
        /\ UNCHANGED notArgs

mm_context_uninit(ctx_null) ==
    LET r == ContextUninit(a_be, ctx_null)
    IN  /\ a_ctx' = r.ctx
        /\ a_obs' = [last |-> ArgCall("mm_context_uninit", r.ret, ctx_null, FALSE,
                                      FALSE, 0, 0),
                     life |-> IF r.ret = MM_SUCCESS /\ a_obs.life = "ready"
                              THEN "uninit" ELSE a_obs.life]
        /\ UNCHANGED <<a_be, a_dev, a_os>>
        /\ UNCHANGED notArgs

mm_in_open_args(ctx_null, dev_null, cb_null, idx, ok) ==
    LET r == InOpen(a_be, ctx_null, dev_null, cb_null, idx, a_os.nin, ok)
    IN  ArgReturn(ArgCall("mm_in_open", r.ret, ctx_null, dev_null, cb_null, idx,
                          a_os.nin), r.dev)

mm_out_open_args(ctx_null, dev_null, idx, ok) ==
    LET r == OutOpen(a_be, ctx_null, dev_null, idx, a_os.nout, ok)
    IN  ArgReturn(ArgCall("mm_out_open", r.ret, ctx_null, dev_null, FALSE, idx,
                          a_os.nout), r.dev)

mm_in_open_virtual_args(ctx_null, dev_null, cb_null, ok) ==
    LET r == InOpenVirtual(a_be, ctx_null, dev_null, cb_null, ok)
    IN  ArgReturn(ArgCall("mm_in_open_virtual", r.ret, ctx_null, dev_null,
                          cb_null, 0, 0), r.dev)

mm_out_open_virtual_args(ctx_null, dev_null, ok) ==
    LET r == OutOpenVirtual(a_be, ctx_null, dev_null, ok)
    IN  ArgReturn(ArgCall("mm_out_open_virtual", r.ret, ctx_null, dev_null,
                          FALSE, 0, 0), r.dev)

mm_in_name(ctx_null, idx, ok) ==
    ArgReturn(ArgCall("mm_in_name",
                      EndpointName(a_be, ctx_null, idx, a_os.nin, ok),
                      ctx_null, FALSE, FALSE, idx, a_os.nin), a_dev)

mm_out_name(ctx_null, idx, ok) ==
    ArgReturn(ArgCall("mm_out_name",
                      EndpointName(a_be, ctx_null, idx, a_os.nout, ok),
                      ctx_null, FALSE, FALSE, idx, a_os.nout), a_dev)

ArgsNext ==
    \/ EndpointsChange
    \/ \E ctx_null, ok \in BOOLEAN : mm_context_init(ctx_null, ok)
    \/ \E ctx_null \in BOOLEAN : mm_context_uninit(ctx_null)
    \/ \E ctx_null, dev_null, cb_null, ok \in BOOLEAN :
          \E idx \in 0..MaxEndpoints :
             mm_in_open_args(ctx_null, dev_null, cb_null, idx, ok)
    \/ \E ctx_null, dev_null, ok \in BOOLEAN :
          \E idx \in 0..MaxEndpoints : mm_out_open_args(ctx_null, dev_null, idx, ok)
    \/ \E ctx_null, dev_null, cb_null, ok \in BOOLEAN :
          mm_in_open_virtual_args(ctx_null, dev_null, cb_null, ok)
    \/ \E ctx_null, dev_null, ok \in BOOLEAN :
          mm_out_open_virtual_args(ctx_null, dev_null, ok)
    \/ \E ctx_null, ok \in BOOLEAN :
          \E idx \in 0..MaxEndpoints : mm_in_name(ctx_null, idx, ok)
    \/ \E ctx_null, ok \in BOOLEAN :
          \E idx \in 0..MaxEndpoints : mm_out_name(ctx_null, idx, ok)

----------------------------------------------------------------------------
(* ALSA: mm_out_send_sysex on an Opened output device; the states in which  *)
(* the send, receive-order and enumeration parts have not begun            *)

SendZeroBuf == [i \in 1..MM_SYSEX_BUF_SIZE |-> 0]
NoSend == [data |-> <<>>, os_ok |-> FALSE, ret |-> "none", sent |-> <<>>,
           buf |-> SendZeroBuf]

SendIdle ==
    /\ so_buf = SendZeroBuf
    /\ so_last = NoSend

OrderIdle ==
    /\ ord_q = <<>>
    /\ ord_hand = <<>>
    /\ ord_log = <<>>
    /\ ord_arr = <<>>

NoEnumCall == [dir |-> "none", idx |-> 0, name |-> <<>>, open |-> <<>>]

EnumIdle ==
    /\ en_os = <<>>
    /\ en_lst = [dir |-> "none", ports |-> <<>>]
    /\ en_call = NoEnumCall

MoreIdle == SendIdle /\ OrderIdle /\ EnumIdle

RECURSIVE SendDataOfLen(_)
\* the byte slices of n bytes over 0xF0 and 0xF7
SendDataOfLen(n) ==
    IF n = 0 THEN {<<>>}
    ELSE {s \o <<d>> : s \in SendDataOfLen(n - 1), d \in {240, 247}}

\* the slices given to mm_out_send_sysex: every length from 0 to one more
\* than the buffer holds
SendData == UNION {SendDataOfLen(n) : n \in 0..(MM_SYSEX_BUF_SIZE + 1)}

\* mm_out_send_sysex(dev, data, size) on an Opened output device, data not
\* null: the size test, memcpy into dev->al.sysex_buf, and the
\* SND_SEQ_EVENT_SYSEX event handed to mm__alsa_send_ev.  os_ok is whether the
\* sequencer takes the event; the result of snd_seq_event_output is not
\* looked at.  so_last.buf is the buffer before the call.
mm_out_send_sysex_data(data, os_ok) ==
    /\ IF Len(data) = 0 \/ Len(data) > MM_SYSEX_BUF_SIZE
       THEN /\ so_buf' = so_buf
            /\ so_last' = [data |-> data, os_ok |-> os_ok, ret |-> MM_INVALID_ARG,
                           sent |-> <<>>, buf |-> so_buf]
       ELSE LET b == [i \in 1..MM_SYSEX_BUF_SIZE |->
                        IF i <= Len(data) THEN data[i] ELSE so_buf[i]]
            IN  /\ so_buf' = b
                /\ so_last' = [data |-> data, os_ok |-> os_ok, ret |-> MM_SUCCESS,
                               sent |-> IF os_ok THEN <<SubSeq(b, 1, Len(data))>>
                                                 ELSE <<>>,
                               buf |-> so_buf]
    /\ UNCHANGED notSend

----------------------------------------------------------------------------
(* ALSA: the receive threads of the input devices of one context           *)

\* number of input devices of the context, and of events that arrive
MaxOrderDevs == 2
MaxOrderEvents == 3

\* one to MaxOrderDevs input devices are Running, each with its port and its
\* receive thread inside while (da->running); the context's one sequencer
\* client has one input queue for the events of all its ports
OrderStart ==
    /\ ord_q = <<>>
    /\ \E n \in 1..MaxOrderDevs :
          /\ ord_hand = [d \in 1..n |-> <<>>]
          /\ ord_log = [d \in 1..n |-> <<>>]
          /\ ord_arr = [d \in 1..n |-> <<>>]

OrderDevs == DOMAIN ord_hand

OrderArrived == Len(ord_q) + Len(Concat([d \in OrderDevs |-> ord_hand[d] \o ord_log[d]]))

\* a peer's event arrives at the port of device d: the sequencer appends it
\* to the client's input queue.  n counts the events of that port
OrderEventArrives(d) ==
    /\ OrderArrived < MaxOrderEvents
    /\ LET e == [port |-> d, n |-> Len(ord_arr[d]) + 1]
       IN  /\ ord_arr' = [ord_arr EXCEPT ![d] = Append(@, e)]
           /\ ord_q' = Append(ord_q, e)
    /\ UNCHANGED <<ord_hand, ord_log>>
    /\ UNCHANGED notOrder

\* the receive thread of device d, woken by poll, finds an event pending and
\* takes it with snd_seq_event_input(al->seq, &ev): the next event of the
\* client's queue, whichever port it is addressed to
OrderThreadInput(d) ==
    /\ ord_hand[d] = <<>> /\ ord_q # <<>>
    /\ ord_hand' = [ord_hand EXCEPT ![d] = <<Head(ord_q)>>]
    /\ ord_q' = Tail(ord_q)
    /\ UNCHANGED <<ord_log, ord_arr>>
    /\ UNCHANGED notOrder

\* the switch of the thread of device d ends in dev->callback(dev, &msg, ...)
\* with dev the thread's own device; ev->dest is not looked at
OrderThreadCallback(d) ==
    /\ ord_hand[d] # <<>>
    /\ ord_log' = [ord_log EXCEPT ![d] = Append(@, ord_hand[d][1])]
    /\ ord_hand' = [ord_hand EXCEPT ![d] = <<>>]
    /\ UNCHANGED <<ord_q, ord_arr>>
    /\ UNCHANGED notOrder

OrderNext ==
    \/ \E d \in OrderDevs : OrderEventArrives(d)
    \/ \E d \in OrderDevs : OrderThreadInput(d)
    \/ \E d \in OrderDevs : OrderThreadCallback(d)

----------------------------------------------------------------------------
(* ALSA: mm__alsa_enum                                                     *)

\* capacity of the list mm__alsa_enum fills
MM_MAX_PORTS == 2

\* number of ports the sequencer has
MaxSysPorts == 3

\* capability bits, a capability word being the set of its bits
SND_SEQ_PORT_CAP_READ == "CAP_READ"
SND_SEQ_PORT_CAP_WRITE == "CAP_WRITE"
SND_SEQ_PORT_CAP_SUBS_READ == "CAP_SUBS_READ"
SND_SEQ_PORT_CAP_SUBS_WRITE == "CAP_SUBS_WRITE"

\* al->client_id, and the id of another client
OwnClient == 128
PeerClient == 129

\* capability words of the ports tried
PortCaps ==
    {{}, {SND_SEQ_PORT_CAP_READ}, {SND_SEQ_PORT_CAP_READ, SND_SEQ_PORT_CAP_SUBS_READ},
     {SND_SEQ_PORT_CAP_WRITE}, {SND_SEQ_PORT_CAP_WRITE, SND_SEQ_PORT_CAP_SUBS_WRITE},
     {SND_SEQ_PORT_CAP_READ, SND_SEQ_PORT_CAP_SUBS_READ,
      SND_SEQ_PORT_CAP_WRITE, SND_SEQ_PORT_CAP_SUBS_WRITE}}

\* a port of another client with any of the capability words, or a port of
\* the context's own client: the port of an input device or of an output
\* device
SysPort ==
    [client : {PeerClient}, cap : PortCaps]
    \cup
    [client : {OwnClient},
     cap : {{SND_SEQ_PORT_CAP_WRITE, SND_SEQ_PORT_CAP_SUBS_WRITE},
            {SND_SEQ_PORT_CAP_READ, SND_SEQ_PORT_CAP_SUBS_READ}}]

RECURSIVE SysPortsOfLen(_)
\* the port lists of n ports, in the order the queries give them
SysPortsOfLen(n) ==
    IF n = 0 THEN {<<>>}
    ELSE {s \o <<e>> : s \in SysPortsOfLen(n - 1), e \in SysPort}

\* the body of the inner loop with cap_any not looked at
mm__alsa_enum_port_noany(lst, i, e, cap_req, cap_any) ==
    LET ok == cap_req \subseteq e.cap
    IN  IF e.client = OwnClient THEN lst
        ELSE IF ~ok \/ Len(lst) >= MM_MAX_PORTS THEN lst
        ELSE Append(lst, i)

\* the body of the loops of mm__alsa_enum for the i-th port queried, e: the
\* list after it.  (cap & cap_req) == cap_req is cap_req within cap;
\* cap_any && (cap & cap_any) is a non-empty cap_any with a bit in cap
mm__alsa_enum_port(lst, i, e, cap_req, cap_any) ==
    LET ok == \/ cap_req \subseteq e.cap
              \/ (cap_any # {} /\ (e.cap \cap cap_any) # {})
    IN  IF e.client = OwnClient THEN lst
        ELSE IF ~ok \/ Len(lst) >= MM_MAX_PORTS THEN lst
        ELSE Append(lst, i)

RECURSIVE mm__alsa_enum_from(_, _, _, _, _)
mm__alsa_enum_from(lst, i, ports, cap_req, cap_any) ==
    IF i > Len(ports) THEN lst
    ELSE mm__alsa_enum_from(mm__alsa_enum_port(lst, i, ports[i], cap_req, cap_any),
                            i + 1, ports, cap_req, cap_any)

\* mm__alsa_enum(ctx, &lst, cap_req, cap_any): lst->count = 0, then every
\* port in query order; the list names the ports by their place in the query
mm__alsa_enum(ports, cap_req, cap_any) ==
    mm__alsa_enum_from(<<>>, 1, ports, cap_req, cap_any)

EnumStart ==
    /\ en_os \in UNION {SysPortsOfLen(n) : n \in 0..MaxSysPorts}
    /\ en_lst = [dir |-> "none", ports |-> <<>>]
    /\ en_call = NoEnumCall

\* mm_in_count on an initialised context
mm_in_count ==
    /\ en_lst' = [dir |-> "in",
                  ports |-> mm__alsa_enum(en_os,
                      {SND_SEQ_PORT_CAP_READ, SND_SEQ_PORT_CAP_SUBS_READ},
                      {SND_SEQ_PORT_CAP_READ})]
    /\ UNCHANGED <<en_os, en_call>>
    /\ UNCHANGED notEnum

\* mm_out_count on an initialised context
mm_out_count ==
    /\ en_lst' = [dir |-> "out",
                  ports |-> mm__alsa_enum(en_os,
                      {SND_SEQ_PORT_CAP_WRITE, SND_SEQ_PORT_CAP_SUBS_WRITE}, {})]
    /\ UNCHANGED <<en_os, en_call>>
    /\ UNCHANGED notEnum

\* lst.ports[idx] after idx >= lst.count has been tested: [ret, port]
EnumPortAt(lst, idx) ==
    IF idx >= Len(lst) THEN [ret |-> MM_OUT_OF_RANGE, port |-> 0]
    ELSE [ret |-> MM_SUCCESS, port |-> lst[idx + 1]]

\* mm_in_name on an initialised context with a buffer: the port named
mm_in_name_port(ports, idx) ==
    EnumPortAt(mm__alsa_enum(ports,
                   {SND_SEQ_PORT_CAP_READ, SND_SEQ_PORT_CAP_SUBS_READ},
                   {SND_SEQ_PORT_CAP_READ}), idx)

mm_out_name_port(ports, idx) ==
    EnumPortAt(mm__alsa_enum(ports,
                   {SND_SEQ_PORT_CAP_WRITE, SND_SEQ_PORT_CAP_SUBS_WRITE}, {}), idx)

\* mm_in_open enumerating with cap_any = 0, as mm_out_open does
mm_in_open_port_noany(ports, idx) ==
    EnumPortAt(mm__alsa_enum(ports,
                   {SND_SEQ_PORT_CAP_READ, SND_SEQ_PORT_CAP_SUBS_READ}, {}), idx)

\* mm_in_open on an initialised context with a device and a callback: the
\* port whose client and port become dev->al.target_client and target_port,
\* with pipe and snd_seq_create_simple_port succeeding
mm_in_open_port(ports, idx) ==
    EnumPortAt(mm__alsa_enum(ports,
                   {SND_SEQ_PORT_CAP_READ, SND_SEQ_PORT_CAP_SUBS_READ},
                   {SND_SEQ_PORT_CAP_READ}), idx)

mm_out_open_port(ports, idx) ==
    EnumPortAt(mm__alsa_enum(ports,
                   {SND_SEQ_PORT_CAP_WRITE, SND_SEQ_PORT_CAP_SUBS_WRITE}, {}), idx)

\* the record of the calls with index idx in direction dir, begun anew when
\* the last call had another index or direction
EnumCallOf(dir, idx) ==
    IF en_call.dir = dir /\ en_call.idx = idx THEN en_call
    ELSE [dir |-> dir, idx |-> idx, name |-> <<>>, open |-> <<>>]

\* the indexes tried: every valid one and one past the longest list
EnumIndexes == 0..MM_MAX_PORTS

mm_in_name_enum(idx) ==
    /\ en_call' = [EnumCallOf("in", idx) EXCEPT !.name = <<mm_in_name_port(en_os, idx)>>]
    /\ UNCHANGED <<en_os, en_lst>>
    /\ UNCHANGED notEnum

mm_out_name_enum(idx) ==
    /\ en_call' = [EnumCallOf("out", idx) EXCEPT !.name = <<mm_out_name_port(en_os, idx)>>]
    /\ UNCHANGED <<en_os, en_lst>>
    /\ UNCHANGED notEnum

mm_in_open_enum(idx) ==
    /\ en_call' = [EnumCallOf("in", idx) EXCEPT !.open = <<mm_in_open_port(en_os, idx)>>]
    /\ UNCHANGED <<en_os, en_lst>>
    /\ UNCHANGED notEnum

mm_out_open_enum(idx) ==
    /\ en_call' = [EnumCallOf("out", idx) EXCEPT !.open = <<mm_out_open_port(en_os, idx)>>]
    /\ UNCHANGED <<en_os, en_lst>>
    /\ UNCHANGED notEnum

EnumNext ==
    \/ mm_in_count
    \/ mm_out_count
    \/ \E idx \in EnumIndexes : mm_in_name_enum(idx)
    \/ \E idx \in EnumIndexes : mm_out_name_enum(idx)
    \/ \E idx \in EnumIndexes : mm_in_open_enum(idx)
    \/ \E idx \in EnumIndexes : mm_out_open_enum(idx)

SendNext == \E data \in SendData, os_ok \in BOOLEAN : mm_out_send_sysex_data(data, os_ok)

----------------------------------------------------------------------------
(* The specifications                                                      *)

InitParse ==
    /\ ParseStart /\ WmIdle /\ MtcIdle /\ SysexIdle /\ CmIdle /\ AlsaIdle /\ EventIdle /\ ArgsIdle
    /\ MoreIdle
SpecParse == InitParse /\ [][ParseNext]_vars

\* mm__cm_read_proc over one packet of any bytes, the empty packet included,
\* or over the packets of a SysEx cut into chunks; once called, the read
\* proc runs until it returns
InitPacket ==
    /\ ParseIdle /\ WmIdle /\ MtcIdle /\ SysexIdle /\ CmIdle /\ AlsaIdle /\ EventIdle /\ ArgsIdle
    /\ MoreIdle
PacketNext ==
    \/ PeerSendsPackets
    \/ mm__cm_read_proc_iter
    \/ mm__cm_read_proc_next
FairPacket ==
    /\ InitPacket /\ [][PacketNext]_vars
    /\ WF_vars(mm__cm_read_proc_iter)
    /\ WF_vars(mm__cm_read_proc_next)

InitMtc ==
    /\ ParseIdle /\ WmIdle /\ MtcStart /\ SysexIdle /\ CmIdle /\ AlsaIdle /\ EventIdle /\ ArgsIdle
    /\ MoreIdle
MtcNext == PushNextPiece
SpecMtc == InitMtc /\ [][MtcNext]_vars

InitMtcAny ==
    /\ ParseIdle /\ WmIdle /\ MtcAnyStart /\ SysexIdle /\ CmIdle /\ AlsaIdle /\ EventIdle /\ ArgsIdle
    /\ MoreIdle
MtcAnyNext ==
    \/ PushScripted
    \/ \E qf \in MtcBytes : PushAny(qf)
SpecMtcAny == InitMtcAny /\ [][MtcAnyNext]_vars

InitSysex ==
    /\ ParseIdle /\ WmIdle /\ MtcIdle /\ SysexStart /\ CmIdle /\ AlsaIdle /\ EventIdle /\ ArgsIdle
    /\ MoreIdle
SysexNext == AlsaSysexEvent
SpecSysex == InitSysex /\ [][SysexNext]_vars
SpecRestart == InitSysex /\ [][RestartNext]_vars

InitCm ==
    /\ ParseIdle /\ WmIdle /\ MtcIdle /\ SysexIdle /\ CmIdle /\ AlsaIdle /\ EventIdle /\ ArgsIdle
    /\ MoreIdle
SpecCm == InitCm /\ [][CmNext]_vars

Init ==
    /\ ParseIdle /\ WmIdle /\ MtcIdle /\ SysexIdle /\ CmIdle /\ AlsaIdle /\ EventIdle /\ ArgsIdle
    /\ MoreIdle
Next == AlsaNext
Spec == Init /\ [][Next]_vars

InitEvent ==
    /\ ParseIdle /\ WmIdle /\ MtcIdle /\ SysexIdle /\ CmIdle /\ AlsaIdle /\ EventIdle /\ ArgsIdle
    /\ MoreIdle
SpecEvent == InitEvent /\ [][EventNext]_vars

InitArgs ==
    /\ ParseIdle /\ WmIdle /\ MtcIdle /\ SysexIdle /\ CmIdle /\ AlsaIdle /\ EventIdle /\ ArgsStart
    /\ MoreIdle
SpecArgs == InitArgs /\ [][ArgsNext]_vars

InitOrder ==
    /\ ParseIdle /\ WmIdle /\ MtcIdle /\ SysexIdle /\ CmIdle /\ AlsaIdle /\ EventIdle /\ ArgsIdle
    /\ SendIdle /\ OrderStart /\ EnumIdle
SpecOrder == InitOrder /\ [][OrderNext]_vars

InitEnum ==
    /\ ParseIdle /\ WmIdle /\ MtcIdle /\ SysexIdle /\ CmIdle /\ AlsaIdle /\ EventIdle /\ ArgsIdle
    /\ SendIdle /\ OrderIdle /\ EnumStart
SpecEnum == InitEnum /\ [][EnumNext]_vars

InitSend ==
    /\ ParseIdle /\ WmIdle /\ MtcIdle /\ SysexIdle /\ CmIdle /\ AlsaIdle /\ EventIdle /\ ArgsIdle
    /\ MoreIdle
SpecSend == InitSend /\ [][SendNext]_vars

\* the scheduler runs every thread that can run: the receive threads and the
\* owner inside mm_in_stop.  Nothing makes the owner call again or a peer send
FairSpec ==
    /\ Spec
    /\ WF_vars(OwnerStep)
    /\ \A i \in 1..MaxThreads : WF_vars(i \in Threads /\ ThreadStep(i))

----------------------------------------------------------------------------
(* Properties                                                              *)

\* C1 (SpecParse).  Real-time interleaving: when the read proc has read the
\* stream S and S with the real-time byte R put at position p, the messages
\* of the second packet are those of the first, same payloads and same order,
\* plus exactly one message of R's kind.
RealTimeInterleaving ==
    (ppc = "done" /\ scn.kind = "stream") =>
        LET a == MsgsOf(0)
            b == MsgsOf(1)
        IN  \E i \in 1..Len(b) :
               /\ b[i] = [ZeroMsg EXCEPT !.type = RealTimeType(scn.R)]
               /\ RemoveAt(b, i) = a

\* C2 (SpecParse).  SysEx reassembly over successive CoreMIDI packets: when
\* all the chunks of a SysEx have been read, the callback has received
\* exactly one MM_SYSEX message, and its bytes are the concatenation of the
\* chunks.
SysexReassembly ==
    (ppc = "done" /\ scn.kind = "chunks") =>
        LET sx == SelectSeq([k \in 1..Len(cb) |-> cb[k].msg], LAMBDA m : m.type = MM_SYSEX)
        IN  /\ Len(sx) = 1
            /\ sx[1].sysex = Concat(scn.chunks)

\* C2 on the ALSA receive path (SpecSysex): when all the chunks have arrived
\* as SND_SEQ_EVENT_SYSEX events, the callback has received exactly one
\* MM_SYSEX message, and its bytes are the concatenation of the chunks.
SysexReassemblyAlsa ==
    sx_chunks = <<>> => sx_cb = <<Concat(sx_all)>>

\* C3 (SpecMtc).  MTC reassembly: pushing the eight quarter frames of a frame
\* F in order into a zero-initialised state returns 0 seven times and 1 on
\* the eighth call, and the frame written then equals F in all five fields.
MtcReassembly ==
    /\ \A i \in 1..Len(mtc_ret) : mtc_ret[i] = IF i = 8 THEN 1 ELSE 0
    /\ mtc_k = 8 => mtc_out = mtc_F

\* C3: the eighth push of 23:59:59 frame 23 at 30 fps has returned 1
MtcReassemblyWitness ==
    /\ mtc_k = 8 /\ Len(mtc_ret) = 8 /\ mtc_ret[8] = 1
    /\ mtc_F = MtcFrame(23, 59, 59, 23, 3)
    /\ mtc_out = mtc_F

\* C4 (SpecParse).  Round trip: a non-SysEx message other than SongPosition,
\* serialized by mm_out_send and read as one packet by the read proc, gives
\* the callback exactly one message, with the same type, channel and data
\* bytes.
Roundtrip ==
    (ppc = "done" /\ scn.kind = "msg") =>
        /\ Len(cb) = 1
        /\ cb[1].msg.type = scn.M.type
        /\ cb[1].msg.channel = scn.M.channel
        /\ cb[1].msg.data = scn.M.data

\* C4: a PitchBend on channel 15 with data 127, 64 has made the round trip
RoundtripWitness ==
    /\ ppc = "done" /\ scn.kind = "msg"
    /\ scn.M = [ZeroMsg EXCEPT !.type = MM_PITCH_BEND, !.channel = 15,
                               !.data = <<127, 64>>]
    /\ pl = <<<<239, 127, 64>>>>
    /\ Len(cb) = 1 /\ cb[1].msg = scn.M

\* receive threads that have been created and have not returned
LiveThreads == {i \in Threads : thr[i].pc # "done"}

\* C5 (Spec).  One receive thread: a device never has more than one live
\* receive thread, and mm_in_start on a device that is already Running does
\* not return MM_SUCCESS.
OneReceiveThread ==
    /\ Cardinality(LiveThreads) <= 1
    /\ (obs.last.op = "mm_in_start" /\ obs.last.was_running) =>
           obs.last.ret # MM_SUCCESS

\* C6 (Spec).  Restart: once an mm_in_stop called on a Running device has
\* joined the receive thread and returned, no wake byte is left in the
\* device's wake pipe; and while the device is Running the thread made by the
\* last mm_in_start has not returned.
RestartKeepsThread ==
    /\ (obs.last.op = "mm_in_stop" /\ obs.last.was_running
            /\ obs.last.ret = MM_SUCCESS /\ own.pc = "idle"
            /\ dev.thread \in Threads /\ thr[dev.thread].joined
            /\ dev.wake_pipe \in 1..Len(pipe)) =>
           pipe[dev.wake_pipe].bytes = 0
    /\ (obs.started /\ dev.running = 1 /\ dev.thread \in Threads) =>
           thr[dev.thread].pc # "done"

\* C7 (SpecCm).  The callback is called only while the device is Running:
\* not before a successful mm_in_start, not after mm_in_stop or mm_in_close
\* has returned; virtual inputs included.
CallbackOnlyWhileRunning ==
    cm_obs.last.op = "callback" => cm_obs.last.was_running

\* C8 (Spec).  mm_in_close on an open device, Opened or Running: when it has
\* returned, it has returned MM_SUCCESS, the device is not open and no
\* receive thread is left to call the callback.
CloseStopsDelivery ==
    (obs.last.op = "mm_in_close" /\ obs.last.was_open = 1) =>
        /\ obs.last.ret = MM_SUCCESS
        /\ dev.is_open = 0
        /\ LiveThreads = {}

\* C9 (FairSpec).  mm_in_stop called on a Running device, one whose
\* mm_in_start made a receive thread that is not joined yet, eventually
\* returns.
StopReturns ==
    (own.op = "mm_in_stop" /\ own.pc = "stop_write" /\ obs.started /\ Joinable)
        ~> (own.pc = "idle")

\* the four opens
OpenOps == {"mm_in_open", "mm_in_open_virtual", "mm_out_open", "mm_out_open_virtual"}

\* C10 (Spec).  Double open: an open called on a device that is open returns
\* MM_ALREADY_OPEN and leaves the device, its port, its wake pipe and its
\* threads as they were.
DoubleOpenFails ==
    [][(obs'.calls = obs.calls + 1 /\ obs'.last.op \in OpenOps /\ dev.is_open = 1) =>
          /\ obs'.last.ret = "MM_ALREADY_OPEN"
          /\ UNCHANGED <<dev, os, pipe, thr>>]_vars

\* C12 (Spec).  mm_in_stop on an input that is open and not Running fails
\* with MM_NOT_OPEN and has no effect: it does not go on to write into the
\* wake pipe and to join a thread.
StopOnOpenedFails ==
    /\ (own.op = "mm_in_stop" /\ own.pc # "idle") => obs.started
    /\ (obs.last.op = "mm_in_stop" /\ ~obs.last.was_running) =>
           obs.last.ret = MM_NOT_OPEN

\* C16 (SpecSysex).  SysEx overflow: when the chunk that arrives does not fit
\* behind the bytes held, the bytes held are given to the callback as one
\* SysEx message and the cursor goes back to 0.
SysexOverflowEmits ==
    [][(sx_chunks # <<>> /\ Len(sx_buf) + Len(Head(sx_chunks)) > MM_SYSEX_BUF_SIZE) =>
          /\ sx_cb' = Append(sx_cb, sx_buf)
          /\ sx_buf' = <<>>]_vars

\* the calls made on input devices and those made on output devices
InOps == {"mm_in_start", "mm_in_stop", "mm_in_close"}
OutOps == {"mm_out_send", "mm_out_send_sysex", "mm_out_close"}

\* C11 (Spec).  Wrong direction or unopened: an input call on a device that
\* is not an open input, and an output call on a device that is not an open
\* output, returns MM_NOT_OPEN and leaves the device, the ports, the wake
\* pipes, the threads and the events sent as they were.
WrongDirectionFails ==
    [][(/\ obs'.calls = obs.calls + 1
        /\ \/ obs'.last.op \in InOps /\ (dev.is_open = 0 \/ dev.is_input = 0)
           \/ obs'.last.op \in OutOps /\ (dev.is_open = 0 \/ dev.is_input = 1)) =>
          /\ obs'.last.ret = MM_NOT_OPEN
          /\ UNCHANGED <<dev, os, pipe, thr>>]_vars

\* C15 (Spec).  mm_in_start whose connect (on a device that is not virtual)
\* or whose thread creation is rejected by the OS returns MM_ERROR and leaves
\* the running flag 0 and no new thread.
StartFailureReported ==
    [][\A conn_ok, thr_ok \in BOOLEAN :
          (/\ mm_in_start(conn_ok, thr_ok)
           /\ dev.is_open = 1 /\ dev.is_input = 1
           /\ (~conn_ok /\ dev.is_virtual = 0) \/ ~thr_ok) =>
             /\ obs'.last.ret = MM_ERROR
             /\ dev'.running = 0
             /\ thr' = thr]_vars

\* C17 (SpecEvent).  A NoteOn event received with velocity 0 is given to the
\* callback as a message of type MM_NOTE_ON with velocity 0: the receive
\* switch never turns it into MM_NOTE_OFF.
NoteOnZeroPreserved ==
    \A i \in 1..Len(ev_cb) :
        (ev_cb[i].ev.type = "SND_SEQ_EVENT_NOTEON" /\ ev_cb[i].ev.velocity = 0) =>
            /\ ev_cb[i].msg.type = MM_NOTE_ON
            /\ ev_cb[i].msg.data[2] = 0

\* C18 (SpecEvent).  mm_out_send on an open output device rejects none of
\* the 17 kinds of message other than SysEx with MM_INVALID_ARG, and sends
\* an event for each.
AllKindsAccepted ==
    \A i \in 1..Len(ev_calls) :
        ev_calls[i].msg.type # MM_SYSEX =>
            /\ ev_calls[i].ret # MM_INVALID_ARG
            /\ ev_calls[i].sent # <<>>

\* C19 (SpecEvent).  The channel mm_out_send puts into the event is
\* msg->channel & 0x0F, and no message given to the callback has a channel
\* above 15.
ChannelBounds ==
    /\ \A i \in 1..Len(ev_calls) :
          (ev_calls[i].msg.type \in ChannelTypes /\ ev_calls[i].sent # <<>>) =>
              ev_calls[i].sent[1].channel = ev_calls[i].msg.channel % 16
    /\ \A i \in 1..Len(ev_cb) : ev_cb[i].msg.channel <= 15

\* the functions that take the context, mm_context_init apart
CtxOps ==
    {"mm_in_open", "mm_in_open_virtual", "mm_out_open", "mm_out_open_virtual",
     "mm_in_name", "mm_out_name", "mm_context_uninit"}

\* C13 (SpecArgs).  Once mm_context_uninit has succeeded on a context, every
\* later call that is given that context (with a device and a callback where
\* it takes them) fails with MM_NOT_OPEN.
AfterUninitNotOpen ==
    (/\ a_obs.last.op \in CtxOps
     /\ a_obs.last.life = "uninit"
     /\ ~a_obs.last.ctx_null /\ ~a_obs.last.dev_null /\ ~a_obs.last.cb_null) =>
        a_obs.last.ret = MM_NOT_OPEN

\* C14 (SpecArgs).  mm_in_open and mm_out_open on an initialised context
\* with an index not below the number of endpoints of the direction fail
\* with MM_OUT_OF_RANGE and leave the device structure as it was; with a
\* null context, device or callback they fail with MM_INVALID_ARG.
OpenArgChecks ==
    LET c == a_obs.last
    IN  /\ (/\ c.op \in {"mm_in_open", "mm_out_open"}
             /\ c.life = "ready"
             /\ ~c.ctx_null /\ ~c.dev_null /\ ~c.cb_null
             /\ c.idx >= c.n) =>
                /\ c.ret = MM_OUT_OF_RANGE
                /\ a_dev = c.dev_before
        /\ (/\ c.op \in {"mm_in_open", "mm_out_open"}
             /\ (c.ctx_null \/ c.dev_null \/ c.cb_null)) =>
                c.ret = MM_INVALID_ARG

\* C20 (SpecParse).  Every message the byte parser gives to the callback for
\* a packet of status and data bytes in any order has data[0] <= 0x7F and
\* data[1] <= 0x7F.
ParsedDataSevenBit ==
    scn.kind = "raw" =>
        \A k \in 1..Len(cb) :
            /\ cb[k].msg.data[1] <= 127
            /\ cb[k].msg.data[2] <= 127

\* C21 (SpecEvent).  Every MM_SONG_POSITION message given to the callback has
\* song_position = data[0] | (data[1] << 7) and song_position <= 16383,
\* whatever value the event carries.
SongPositionFourteenBit ==
    \A i \in 1..Len(ev_cb) :
        ev_cb[i].msg.type = MM_SONG_POSITION =>
            /\ ev_cb[i].msg.song_position =
                   BitOr(ev_cb[i].msg.data[1], ev_cb[i].msg.data[2] * 128)
            /\ ev_cb[i].msg.song_position <= 16383

\* C22 (SpecParse).  For every pos in 0..16383, mm_out_send of a
\* SongPosition gives the bytes 0xF2, pos & 0x7F, (pos >> 7) & 0x7F, as
\* CoreMIDI packet and as WinMM word, and the parser that reads them gives
\* the callback one MM_SONG_POSITION message with song_position = pos.
SongPositionRoundtrip ==
    scn.kind = "songpos" =>
        LET pos == scn.M.song_position
            lsb == pos % 128
            msb == (pos \div 128) % 128
        IN  /\ pl # <<>> => pl = <<<<242, lsb, msb>>>>
            /\ wm_out.pk # -1 => wm_out.pk = 242 + 256 * lsb + 65536 * msb
            /\ (ppc = "done" /\ (pl # <<>> \/ wm_out.ret = MM_SUCCESS)) =>
                  /\ Len(cb) = 1
                  /\ cb[1].msg.type = MM_SONG_POSITION
                  /\ cb[1].msg.song_position = pos

\* C22: the song position 16383 has gone through the WinMM word 0x7F7FF2
SongPositionRoundtripWitness ==
    /\ scn.kind = "songpos" /\ scn.M.song_position = 16383
    /\ ppc = "done" /\ wm_out = [ret |-> MM_SUCCESS, pk |-> 8355826]
    /\ wm_p1 = 8355826
    /\ Len(cb) = 1 /\ cb[1].msg.song_position = 16383

\* C23 (SpecParse).  The parser makes no callback for 0xF4, 0xF5, 0xF9 or
\* 0xFD: when the byte at the cursor of the read proc is one of them the
\* iteration moves the cursor one byte on and calls nothing, and a WinMM
\* word whose status byte is one of them calls nothing.
UndefinedStatusSilent ==
    [][/\ (/\ ppc = "reading" /\ pi < Len(pl) /\ pj < Len(pl[pi + 1])
            /\ At(pl[pi + 1], pj) \in UndefinedStatus) =>
               (pj' = pj + 1 /\ pi' = pi /\ cb' = cb)
       /\ (ppc = "mim_data" /\ (wm_p1 % 256) \in UndefinedStatus) =>
               cb' = cb]_vars

\* C23: the packet F4 90 3C has been read: the 0xF4 was passed over and the
\* two bytes after it made the one message delivered, a NoteOn
UndefinedStatusSilentWitness ==
    /\ scn.kind = "raw" /\ scn.S = <<244, 144, 60>>
    /\ ppc = "done"
    /\ Len(cb) = 1
    /\ cb[1].msg = [ZeroMsg EXCEPT !.type = MM_NOTE_ON, !.data = <<60, 0>>]

\* C24 (SpecMtcAny).  Whatever bytes are pushed into a zero-initialised
\* state, mm_mtc_push returns 1 on exactly the 8th, 16th, ... call and 0 on
\* every other; the count stays in 0..7; the slot written is one of 0..7 and
\* the state keeps exactly the eight slots.
MtcCountedEmission ==
    /\ Len(mtc_ret) = mtc_k
    /\ \A i \in 1..Len(mtc_ret) : mtc_ret[i] = IF i % 8 = 0 THEN 1 ELSE 0
    /\ mtc_s.count \in 0..7 /\ mtc_s.count = mtc_k % 8
    /\ DOMAIN mtc_s.pieces = 0..7
    /\ mtc_k > 0 =>
          /\ (mtc_qf \div 16) % 8 \in 0..7
          /\ mtc_s.pieces[(mtc_qf \div 16) % 8] = mtc_qf % 16

\* C24: sixteen bytes, none with piece index 7 in the last eight and one
\* with bit 7 set, have been pushed; the 8th and the 16th call returned 1
MtcCountedEmissionWitness ==
    /\ mtc_in = <<>> /\ mtc_k = 16 /\ mtc_qf = 53
    /\ mtc_ret = <<0, 0, 0, 0, 0, 0, 0, 1, 0, 0, 0, 0, 0, 0, 0, 1>>
    /\ mtc_s.pieces[7] = 15 /\ mtc_s.count = 0

\* C25 (SpecMtcAny).  After the mm_mtc_push call that returns 1, the state
\* equals the zero-initialised state: count 0 and all eight slots 0.
MtcEmptyAfterEmit ==
    (mtc_k > 0 /\ mtc_ret[mtc_k] = 1) => mtc_s = MtcZero

\* the eight bytes 0x00, 0x10, 0x00, 0x20, 0x00, 0x30, 0x00, 0x70
MtcExampleBytes == <<0, 16, 0, 32, 0, 48, 0, 112>>

\* C26 as stated: after the eight bytes 0x00, 0x10, 0x00, 0x20, 0x00, 0x30,
\* 0x00, 0x70 the eighth push has returned 1 and the frame is frames=1,
\* seconds=2, minutes=3, hours=0 at 30 fps.
MtcExampleAsStated ==
    (mtc_in = MtcExampleBytes /\ mtc_k = 8) =>
        /\ mtc_ret[8] = 1
        /\ mtc_out = MtcFrame(0, 3, 2, 1, MM_MTC_30FPS)

\* C26 (SpecMtcAny), amended.  The eight bytes 0x00, 0x10, 0x00, 0x20, 0x00,
\* 0x30, 0x00, 0x70 pushed into a zero-initialised state make the first seven
\* pushes return 0 and the eighth return 1 with the frame frames=0,
\* seconds=0, minutes=0, hours=0 at 24 fps, whatever the frame held before;
\* the frame frames=1, seconds=2, minutes=3, hours=0 at 30 fps is what the
\* bytes 0x01, 0x10, 0x22, 0x30, 0x43, 0x50, 0x60, 0x76 give.
MtcExampleFrame ==
    /\ mtc_in = MtcExampleBytes =>
          /\ \A i \in 1..Len(mtc_ret) : mtc_ret[i] = IF i = 8 THEN 1 ELSE 0
          /\ mtc_k = 8 => mtc_out = MtcFrame(0, 0, 0, 0, MM_MTC_24FPS)
    /\ mtc_in = <<1, 16, 34, 48, 67, 80, 96, 118>> =>
          /\ \A i \in 1..Len(mtc_ret) : mtc_ret[i] = IF i = 8 THEN 1 ELSE 0
          /\ mtc_k = 8 => mtc_out = MtcFrame(0, 3, 2, 1, MM_MTC_30FPS)

\* C26: the eight bytes have been pushed and the frame is 00:00:00 frame 0
MtcExampleFrameWitness ==
    /\ mtc_in = MtcExampleBytes /\ mtc_k = 8 /\ mtc_qf = 112
    /\ mtc_ret = <<0, 0, 0, 0, 0, 0, 0, 1>>
    /\ mtc_out = MtcFrame(0, 0, 0, 0, MM_MTC_24FPS)

\* C27 (SpecSend).  On an open output device mm_out_send_sysex accepts every
\* slice of at most MM_SYSEX_BUF_SIZE bytes and transmits exactly its bytes,
\* and fails with MM_INVALID_ARG for every longer slice, transmitting nothing
\* and leaving the device's buffer as it was.
SysexSendBounds ==
    so_last.ret # "none" =>
        IF Len(so_last.data) <= MM_SYSEX_BUF_SIZE
        THEN /\ so_last.ret = MM_SUCCESS
             /\ so_last.os_ok => so_last.sent = <<so_last.data>>
        ELSE /\ so_last.ret = MM_INVALID_ARG
             /\ so_last.sent = <<>>
             /\ so_buf = so_last.buf

\* C28 (SpecParse).  mm_out_send on an open output device with a message
\* whose type is MM_SYSEX or a value outside enum mm_message_type returns
\* MM_INVALID_ARG and hands nothing to the OS: no packet list (CoreMIDI), no
\* word for midiOutShortMsg (WinMM).
UnsendableRejected ==
    scn.kind = "badmsg" =>
        /\ pl = <<>> /\ ppc \in {"idle", "invalid_arg"}
        /\ wm_out.ret \in {"none", MM_INVALID_ARG}
        /\ wm_out.pk = -1 /\ wm_p1 = -1

\* C29 (SpecOrder).  For each started input device the messages passed to
\* its callback are, in order, those of the events that arrived at that
\* device, also when other input devices of the context are running.
DeliveryInArrivalOrder ==
    \A d \in OrderDevs :
        /\ Len(ord_log[d]) <= Len(ord_arr[d])
        /\ \A i \in 1..Len(ord_log[d]) : ord_log[d][i] = ord_arr[d][i]

\* the places in the query of the ports the filter of direction dir admits
EnumAdmitted(dir) ==
    SelectSeq([i \in 1..Len(en_os) |-> i],
              LAMBDA i :
                  /\ en_os[i].client # OwnClient
                  /\ IF dir = "in"
                     THEN SND_SEQ_PORT_CAP_READ \in en_os[i].cap
                     ELSE {SND_SEQ_PORT_CAP_WRITE, SND_SEQ_PORT_CAP_SUBS_WRITE}
                              \subseteq en_os[i].cap)

\* C30 (SpecEnum).  The list of inputs holds the ports of other clients whose
\* capabilities include CAP_READ, with or without CAP_SUBS_READ; the list of
\* outputs those with both CAP_WRITE and CAP_SUBS_WRITE; no port of the
\* context's own client is listed; the list holds the first MM_MAX_PORTS such
\* ports at most, in query order.
EnumCapabilityFilter ==
    en_lst.dir # "none" =>
        LET want == EnumAdmitted(en_lst.dir)
        IN  /\ Len(en_lst.ports) <= MM_MAX_PORTS
            /\ en_lst.ports = SubSeq(want, 1, IF Len(want) < MM_MAX_PORTS
                                              THEN Len(want) ELSE MM_MAX_PORTS)
            /\ \A k \in 1..Len(en_lst.ports) :
                  en_os[en_lst.ports[k]].client # OwnClient

\* C30: with an own port, a peer port with CAP_READ alone and a peer port
\* with CAP_WRITE and CAP_SUBS_WRITE, the inputs listed are the second port
EnumCapabilityFilterWitness ==
    /\ en_os = <<[client |-> OwnClient,
                  cap |-> {SND_SEQ_PORT_CAP_READ, SND_SEQ_PORT_CAP_SUBS_READ}],
                 [client |-> PeerClient, cap |-> {SND_SEQ_PORT_CAP_READ}],
                 [client |-> PeerClient,
                  cap |-> {SND_SEQ_PORT_CAP_WRITE, SND_SEQ_PORT_CAP_SUBS_WRITE}]>>
    /\ en_lst = [dir |-> "in", ports |-> <<2>>]

VirtualInputNoConnect ==
    [][/\ (dev.is_virtual = 1 \/ dev'.is_virtual = 1) => os'.conn = os.conn
       /\ (/\ dev.is_virtual = 1 /\ obs'.calls = obs.calls + 1
           /\ obs'.last.op = "mm_in_start" /\ obs'.last.ret = MM_SUCCESS) =>
             /\ dev'.running = 1
             /\ thr' # thr => (thr' = Append(thr, NewThread) /\ dev'.thread = Len(thr'))
       /\ (/\ dev.is_virtual = 1 /\ obs'.calls = obs.calls + 1
           /\ obs'.last.op = "mm_in_stop" /\ obs'.last.ret = MM_SUCCESS
           /\ Joinable) =>
             thr'[dev.thread].joined]_vars

\* C32: a virtual input was opened and started, its thread ran and
\* mm_in_stop has returned with the thread joined and no call recorded
VirtualInputNoConnectWitness ==
    /\ dev.is_virtual = 1 /\ dev.is_input = 1 /\ dev.is_open = 1
    /\ obs.last.op = "mm_in_stop" /\ obs.last.ret = MM_SUCCESS
    /\ Len(thr) = 1 /\ dev.thread = 1 /\ thr[1].joined
    /\ os.conn = {}

\* C33 (SpecParse).  An iteration of the byte parser that finds 0xF0 at the
\* cursor gives the callback exactly one message, of type MM_SYSEX, whose
\* bytes run from that 0xF0 to the first 0xF7 after it inclusive, or to the
\* last byte of the packet when there is none, and leaves the cursor on the
\* byte after the slice; the packet F0 7E 7F 06 01 F7 gives six bytes.
SysexSliceInPacket ==
    [][(/\ ppc = "reading" /\ pi < Len(pl) /\ pj' # pj
        /\ pj < Len(pl[pi + 1]) /\ pl[pi + 1][pj + 1] = 240) =>
          LET d   == pl[pi + 1]
              f7  == {k \in (pj + 2)..Len(d) : d[k] = 247}
              end == IF f7 = {} THEN Len(d)
                     ELSE CHOOSE k \in f7 : \A m \in f7 : k <= m
          IN  /\ Len(cb') = Len(cb) + 1
              /\ SubSeq(cb', 1, Len(cb)) = cb
              /\ cb'[Len(cb')].msg.type = MM_SYSEX
              /\ cb'[Len(cb')].msg.sysex = SubSeq(d, pj + 1, end)
              /\ pj' = end
              /\ d = <<240, 126, 127, 6, 1, 247>> =>
                    Len(cb'[Len(cb')].msg.sysex) = 6]_vars

\* C33: the packet 90 3C 64 F0 7E 7F 06 01 F7 has been parsed into a NoteOn
\* and one SysEx of six bytes that starts at position 3 of the packet
SysexSliceInPacketWitness ==
    /\ ppc = "done" /\ pl = <<<<144, 60, 100, 240, 126, 127, 6, 1, 247>>>>
    /\ Len(cb) = 2
    /\ cb[1].msg.type = MM_NOTE_ON
    /\ cb[2].msg.type = MM_SYSEX
    /\ cb[2].msg.sysex = <<240, 126, 127, 6, 1, 247>>

\* C34 (SpecParse).  An iteration of the byte parser that finds at the
\* cursor a status byte with fewer bytes behind it in the packet than the
\* status requires (two for 0x8n, 0x9n, 0xAn, 0xBn, 0xEn and 0xF2, one for
\* 0xCn, 0xDn, 0xF1 and 0xF3) gives the callback no message.
IncompleteMessageSilent ==
    [][(/\ ppc = "reading" /\ pi < Len(pl) /\ pj' # pj
        /\ pj < Len(pl[pi + 1])
        /\ LET d    == pl[pi + 1]
               st   == d[pj + 1]
               need == IF st = 242 \/ (st \div 16) \in {8, 9, 10, 11, 14} THEN 2
                       ELSE IF st \in {241, 243} \/ (st \div 16) \in {12, 13} THEN 1
                       ELSE 0
           IN  Len(d) - (pj + 1) < need) =>
          cb' = cb]_vars

\* C35 (SpecOrder).  With the input devices of a context started, an event
\* addressed to the port of device A is passed to A's callback and to no
\* other device's: no callback has received an event of another device's
\* port, whichever receive thread ran first.
DeliveryToOwnDevice ==
    \A d \in OrderDevs :
        \A i \in 1..Len(ord_log[d]) : ord_log[d][i].port = d

\* C36 (SpecRestart).  Every mm_in_start that makes the device Running,
\* also one that follows an mm_in_stop made between the chunks of a SysEx,
\* leaves sysex_pos at 0, and a SysEx message given to the callback holds no
\* byte received before the last mm_in_stop.
SysexCursorZeroOnStart ==
    [][/\ (sx_run.running = 0 /\ sx_run'.running = 1) => sx_buf' = <<>>
       /\ (Len(sx_cb') > Len(sx_cb) /\ sx_run.stops > 0) => sx_run.kept = 0]_vars

\* C37 (SpecSysex).  A SysEx message the ALSA receive path gives to the
\* callback is not empty, ends in 0xF7 and is the concatenation of the chunks
\* received since the message before it, for every way the SysEx is cut into
\* chunks; stated for the SysExes of at most MM_SYSEX_BUF_SIZE bytes, the
\* sizes mm_out_send_sysex accepts, a single chunk of that size included.
SysexDeliveredWhole ==
    [][(Len(sx_cb') > Len(sx_cb) /\ Len(Concat(sx_all)) <= MM_SYSEX_BUF_SIZE) =>
          LET m    == sx_cb'[Len(sx_cb')]
              got  == SubSeq(sx_all, 1, Len(sx_all) - Len(sx_chunks'))
          IN  /\ Len(sx_cb') = Len(sx_cb) + 1
              /\ m # <<>>
              /\ m[Len(m)] = 247
              /\ m = Concat(got)]_vars

\* C38 (SpecRestart).  On the ALSA receive path sysex_pos stays below
\* MM_SYSEX_BUF_SIZE, a chunk is copied behind the bytes held only when the
\* bytes held and the chunk together fit in the buffer, and sysex_pos is 0
\* after every SysEx message given to the callback.
SysexCursorInBounds ==
    /\ [](Len(sx_buf) < MM_SYSEX_BUF_SIZE)
    /\ [][/\ sx_buf' # sx_buf /\ sx_buf' # <<>> =>
               /\ sx_buf' = sx_buf \o Head(sx_chunks)
               /\ Len(sx_buf') <= MM_SYSEX_BUF_SIZE
          /\ Len(sx_cb') > Len(sx_cb) =>
               /\ Len(sx_cb'[Len(sx_cb')]) <= MM_SYSEX_BUF_SIZE
               /\ sx_buf' = <<>>]_vars

\* C38: the chunks F0 and F7 have arrived, the second behind sysex_pos = 1,
\* and the message F0 F7 has been given to the callback with the cursor at 0
SysexCursorInBoundsWitness ==
    /\ sx_all = <<<<240>>, <<247>>>> /\ sx_chunks = <<>>
    /\ sx_cb = <<<<240, 247>>>> /\ sx_buf = <<>>

\* C39 (FairPacket).  On every iteration of the byte parser the cursor moves
\* forward and stays within the packet length, so that no byte at or past
\* the length is read (an iteration reads the bytes from the old cursor up
\* to the new one and no others), and the parsing of every packet list ends.
ParserCursorAdvances ==
    /\ [](ppc = "reading" /\ pi < Len(pl) => pj <= Len(pl[pi + 1]))
    /\ [][(ppc = "reading" /\ pi' = pi /\ pj' # pj) =>
             /\ pj < Len(pl[pi + 1])
             /\ pj < pj' /\ pj' <= Len(pl[pi + 1])]_vars
    /\ (ppc = "reading" ~> ppc = "done")

\* C39: the packet 90 3C, which ends before the second data byte of its
\* NoteOn, has been parsed to its end with one message given to the callback
ParserCursorAdvancesWitness ==
    /\ ppc = "done" /\ pl = <<<<144, 60>>>> /\ pi = 1
    /\ Len(cb) = 1 /\ cb[1].msg.type = MM_NOTE_ON

\* the eight slots as the bytes of one cycle alone fill them: slot i holds
\* the nibble of the last byte of the cycle with piece index i, or 0
MtcCycleSlots(cyc) ==
    [i \in 0..7 |->
        LET at == {k \in 1..Len(cyc) : (cyc[k] \div 16) % 8 = i}
        IN  IF at = {} THEN 0
            ELSE cyc[CHOOSE k \in at : \A m \in at : m <= k] % 16]

\* C40 (SpecMtcAny).  The frame mm_mtc_push emits on the 8th, 16th, ... push
\* of a fixed sequence is computed from the nibbles of the eight bytes
\* pushed since the emission before it alone: a slot none of them names
\* counts as 0, and no nibble of an earlier cycle is in the frame.
MtcFrameFromOwnCycle ==
    (mtc_in # <<>> /\ mtc_k > 0 /\ mtc_k % 8 = 0) =>
        mtc_out = MtcDecode(MtcCycleSlots(SubSeq(mtc_in, mtc_k - 7, mtc_k)))

============================================================================
